---- MODULE Spec2Model ----
(***************************************************************************)
(* Verification model of the battery monitor:                              *)
(*   - DeviceId.stable_key              (plasmangenuity/core/types.py)      *)
(*   - _DeviceManagerCore / DeviceManager (plasmangenuity/core/manager.py)  *)
(*   - BatteryTrayIcon._check_notifications (plasmangenuity/tray.py)        *)
(*   - DeviceManager hotplug handling   (plasmangenuity/core/manager.py)    *)
(*   - BatteryTrayIcon debounce / retry (hyperx_battery/tray.py)            *)
(*   - HID command exchange (drivers/hyperx/driver.py, plasmoid backend.py) *)
(* Python's None is the empty tuple, a present value x is <<x>>.           *)
(***************************************************************************)
EXTENDS Integers, Sequences, FiniteSets, TLC

VARIABLES
    \* --- stable-key derivation (inputs drawn in InitKey) ---
    id_a,               \* a DeviceId
    id_b,               \* a second DeviceId
    key_a,              \* None, or <<id_a.stable_key>>
    key_b,              \* None, or <<id_b.stable_key>>
    \* --- _DeviceManagerCore / DeviceManager ---
    _providers,         \* self._providers: list of providers, sorted by priority
    _devices,           \* self._devices: stable_key -> reference of a DeviceInfo object
    _device_provider,   \* self._device_provider: stable_key -> provider
    heap,               \* the DeviceInfo objects alive, by reference
    pc,                 \* position of the event loop's current callback
    ran_on,             \* history: the thread that ran the last step
    di,                 \* run_discovery: index of the next provider in the loop
    seen_keys,          \* run_discovery: local dict stable_key -> reference
    seen_providers,     \* run_discovery: local dict stable_key -> provider
    added,              \* run_discovery: returned set of added keys
    removed,            \* run_discovery: returned set of removed keys
    escaped,            \* an exception left run_discovery / poll / refresh
    scenario,           \* the environment is the fixed two-provider scenario
    old_keys,           \* history: the tracked keys when the pass began
    found,              \* history: provider -> "raise", or the keys discover() reported
    results,            \* poll_all_batteries / refresh_battery: returned readings
    polled,             \* history: stable_key -> outcome of the last read_battery
    delivered,          \* history: the last signal delivered and what its slot saw
    held,               \* consumer: reference returned by get_device / get_all_devices
    held_value,         \* history: the fields of that object when it was returned
    \* --- BatteryTrayIcon notification state ---
    notif_state,        \* self._notif_state.get(stable_key): None or the state dict
    config,             \* self._config.notifications
    sent,               \* notifications sent by the last _check_notifications call
    raised,             \* the last _check_notifications call raised
    fed,                \* history: how many readings of the threshold example were fed
    last_edge,          \* history: the last charging notification sent for the device
    life_edge,          \* history: the same, since the state dict was created
    last_reading,       \* history: the reading of the last step, None if it had none
    \* --- DeviceManager hotplug handling ---
    shots,              \* pending QTimer.singleShot timers: seconds left, oldest first
    since_event,        \* history: seconds since the last watcher callback
    burst,              \* history: watcher callbacks of the current burst
    burst_lost,         \* history: a callback of the burst could not start its timer
    burst_passes,       \* history: discovery passes the current burst has triggered
    early_pass,         \* history: a pass ran inside the quiet period of a callback
    \* --- HyperX tray (hyperx_battery/tray.py) ---
    battery_percent,    \* self.battery_percent
    error,              \* self.error
    _was_charging,      \* self._was_charging
    _notified_thresholds, \* self._notified_thresholds
    _retry_count,       \* self._retry_count
    _debounce_timer,    \* self._debounce_timer: None, or <<seconds left>>
    _retry_timer,       \* self._retry_timer: None, or <<seconds left>>
    last_try,           \* history: outcome of the last _try_update
    settle_retries,     \* history: retry attempts since the last settled window
    window_attempt,     \* history: a retry attempt ran inside an open debounce window
    tray_burst,         \* history: the hotplug signals of the current burst
    tracked,            \* the manager tracks the key (get_device finds it)
    period_full,        \* history: "fully charged" sent in this run of charging readings
    run_full,           \* history: the same, counted from the last device_added
    \* --- HID command exchange ---
    hid_call,           \* history: the last command invocation and its writes
    \* --- packet encoding and decoding (protocol.py) ---
    codec,              \* the last encoder or decoder call: op, args, result
    \* --- macro upload (driver.py, device.py) ---
    upload,             \* the upload_macro call in progress and its exchanges
    \* --- signals of the Qt device manager, its lifecycle ---
    event_log,          \* history: last signal per key, keys signalled in this pass
    mgr_stopped,        \* DeviceManager.stop() has returned
    \* --- HidDriverProvider (providers/hid_driver.py) ---
    hid,                \* _active, _device_infos, and the last call and its result
    watch               \* _watching, _watch_callback, the watcher thread's position

keyVars == <<id_a, id_b, key_a, key_b>>
mgrVars == <<_providers, _devices, _device_provider, heap, pc, di, seen_keys,
             seen_providers, added, removed, escaped, scenario, old_keys,
             found, results, polled, delivered, held, held_value, ran_on>>
notifVars == <<notif_state, config, sent, raised, fed, last_edge, life_edge,
               last_reading, tracked, period_full, run_full>>
hotVars == <<shots, since_event, burst, burst_lost, burst_passes, early_pass>>
trayVars == <<battery_percent, error, _was_charging, _notified_thresholds,
              _retry_count, _debounce_timer, _retry_timer, last_try,
              settle_retries, window_attempt, tray_burst>>
sendVars == <<hid_call>>
codecVars == <<codec>>
uploadVars == <<upload>>
extVars == <<event_log, mgr_stopped, hid, watch>>
vars == <<keyVars, mgrVars, notifVars, hotVars, trayVars, sendVars,
         codecVars, uploadVars, extVars>>

(***************************************************************************)
(* Optional values and Python truthiness                                   *)
(***************************************************************************)
None == <<>>
Some(x) == <<x>>
IsSome(o) == o # <<>>
Val(o) == o[1]

\* `if x:` for an Optional[int]: None and 0 are false
TruthyInt(o) == IsSome(o) /\ Val(o) # 0
\* `if s:` for an Optional[str]: None and "" are false
TruthyStr(o) == IsSome(o) /\ Val(o) # ""

EmptyMap == [k \in {} |-> None]
Range(f) == {f[x] : x \in DOMAIN f}

(***************************************************************************)
(* DeviceId.stable_key                                                     *)
(***************************************************************************)
HexDigits == <<"0", "1", "2", "3", "4", "5", "6", "7",
               "8", "9", "a", "b", "c", "d", "e", "f">>

RECURSIVE Hex(_)
Hex(n) == IF n < 16 THEN HexDigits[n + 1]
          ELSE Hex(n \div 16) \o HexDigits[(n % 16) + 1]

\* format spec "04x": lowercase hex, zero-padded to at least 4 digits
Format04x(n) ==
    LET h == Hex(n)
    IN  CASE Len(h) = 1 -> "000" \o h
          [] Len(h) = 2 -> "00" \o h
          [] Len(h) = 3 -> "0" \o h
          [] OTHER -> h

stable_key_by_path(d) == d.path

\* the ids formatted with "x" in place of "04x"
stable_key_unpadded(d) ==
    IF TruthyInt(d.vendor_id) /\ TruthyInt(d.product_id) /\ TruthyStr(d.serial)
    THEN Hex(Val(d.vendor_id)) \o ":" \o Hex(Val(d.product_id))
         \o ":" \o Val(d.serial)
    ELSE IF TruthyInt(d.vendor_id) /\ TruthyInt(d.product_id)
    THEN Hex(Val(d.vendor_id)) \o ":" \o Hex(Val(d.product_id))
    ELSE d.path

stable_key(d) ==
    IF TruthyInt(d.vendor_id) /\ TruthyInt(d.product_id) /\ TruthyStr(d.serial)
    THEN Format04x(Val(d.vendor_id)) \o ":" \o Format04x(Val(d.product_id))
         \o ":" \o Val(d.serial)
    ELSE IF TruthyInt(d.vendor_id) /\ TruthyInt(d.product_id)
    THEN Format04x(Val(d.vendor_id)) \o ":" \o Format04x(Val(d.product_id))
    ELSE d.path

ProviderTypes == {"UPOWER", "SYSFS", "HID_PROPRIETARY"}

\* identity tuples the key derivation is exercised on
KeyPaths == {"/dev/hidraw1", "/sys/class/power_supply/hid-1-battery"}
KeyVendorIds == {None, Some(0), Some(1133), Some(2385)}
KeyProductIds == {None, Some(0), Some(5857)}
KeySerials == {None, Some(""), Some("S1")}
Identities ==
    [provider : ProviderTypes, path : KeyPaths, vendor_id : KeyVendorIds,
     product_id : KeyProductIds, serial : KeySerials]

(***************************************************************************)
(* Providers                                                               *)
(***************************************************************************)
ProviderNames == {"UPower", "sysfs", "HID"}

priority(p) == CASE p = "UPower" -> 10
                 [] p = "sysfs" -> 20
                 [] p = "HID" -> 30

provider_type(p) == CASE p = "UPower" -> "UPOWER"
                      [] p = "sysfs" -> "SYSFS"
                      [] p = "HID" -> "HID_PROPRIETARY"

\* self._providers.sort(key=lambda p: p.priority): a stable sort
RECURSIVE InsertByPriority(_, _)
InsertByPriority(s, p) ==
    IF s = <<>> THEN <<p>>
    ELSE IF priority(Head(s)) <= priority(p)
         THEN <<Head(s)>> \o InsertByPriority(Tail(s), p)
         ELSE <<p>> \o s

RECURSIVE SortByPriority(_)
SortByPriority(s) ==
    IF s = <<>> THEN <<>>
    ELSE InsertByPriority(SortByPriority(SubSeq(s, 1, Len(s) - 1)), s[Len(s)])

register_provider_unsorted(providers, p) == Append(providers, p)

register_provider(providers, p) == SortByPriority(Append(providers, p))

(***************************************************************************)
(* What the providers can report                                           *)
(***************************************************************************)
\* vendor / product ids of the HyperX dongle (0x0951:0x16E1) and cable (0x16E2)
DeviceIdsOf(p) ==
    CASE p = "UPower" ->
           {[provider |-> "UPOWER",
             path |-> "/org/freedesktop/UPower/devices/mouse_dev_1",
             vendor_id |-> Some(2385), product_id |-> Some(5857), serial |-> None]}
      [] p = "sysfs" ->
           {[provider |-> "SYSFS", path |-> "/sys/class/power_supply/hid-1-battery",
             vendor_id |-> Some(2385), product_id |-> Some(5857), serial |-> None],
            [provider |-> "SYSFS", path |-> "/sys/class/power_supply/hid-2-battery",
             vendor_id |-> Some(2385), product_id |-> Some(5857), serial |-> None]}
      [] p = "HID" ->
           {[provider |-> "HID_PROPRIETARY", path |-> "/dev/hidraw1",
             vendor_id |-> Some(2385), product_id |-> Some(5857), serial |-> None],
            [provider |-> "HID_PROPRIETARY", path |-> "/dev/hidraw2",
             vendor_id |-> Some(2385), product_id |-> Some(5858), serial |-> None]}

\* the identity both providers of the scenario report: vid=0x0951, pid=0x16E1
ScenarioKey == "0951:16e1"
ScenarioProviders == {"UPower", "HID"}
ScenarioPercent(p) == IF p = "UPower" THEN 60 ELSE 58

BatteryReading(pct, chg, p) ==
    [percent |-> Some(pct), is_charging |-> chg, provider |-> provider_type(p)]

\* the readings provider p can produce in the current environment
ReadingsOf(p) ==
    IF scenario
    THEN {BatteryReading(ScenarioPercent(p), FALSE, p)}
    ELSE {BatteryReading(60, FALSE, p), BatteryReading(58, TRUE, p)}

\* UPowerProvider._read_device, SysfsProvider._read_device: battery filled in
UPowerDeviceInfo(id, reading) ==
    [device_id |-> id, name |-> "Wireless Mouse", capabilities |-> {"battery"},
     battery |-> Some(reading), driver_name |-> None]

SysfsDeviceInfo(id, reading) ==
    [device_id |-> id, name |-> "hid-battery", capabilities |-> {"battery"},
     battery |-> Some(reading), driver_name |-> None]

\* HidDriverProvider.discover: no battery on the DeviceInfo it builds
HidDeviceInfo(id) ==
    [device_id |-> id, name |-> "HyperX Mouse",
     capabilities |-> {"battery", "dpi", "led", "buttons", "macros",
                       "polling_rate", "firmware_query"},
     battery |-> None, driver_name |-> Some("hyperx_pulsefire_dart")]

CandidatesOf(p) ==
    CASE p = "UPower" ->
           {UPowerDeviceInfo(id, r) : id \in DeviceIdsOf(p), r \in ReadingsOf(p)}
      [] p = "sysfs" ->
           {SysfsDeviceInfo(id, r) : id \in DeviceIdsOf(p), r \in ReadingsOf(p)}
      [] p = "HID" -> {HidDeviceInfo(id) : id \in DeviceIdsOf(p)}

\* longest list a discover() call returns
MaxFound == 2

RECURSIVE ListsUpTo(_, _)
ListsUpTo(S, n) ==
    IF n = 0 THEN {<<>>}
    ELSE LET shorter == ListsUpTo(S, n - 1)
         IN  shorter \cup
             {Append(l, c) : l \in {x \in shorter : Len(x) = n - 1}, c \in S}

\* one entry per device node
DistinctDevices(l) ==
    \A i, j \in 1..Len(l) : i # j => l[i].device_id # l[j].device_id

Reports(l, key) == \E i \in 1..Len(l) : stable_key(l[i].device_id) = key

\* outcomes of provider.discover(): it raises, or returns a list of DeviceInfo
DiscoverOutcomes(p) ==
    LET lists == {l \in ListsUpTo(CandidatesOf(p), MaxFound) : DistinctDevices(l)}
    IN  IF scenario
        THEN {[kind |-> "list", devices |-> l] : l \in {x \in lists : Reports(x, ScenarioKey)}}
        ELSE {[kind |-> "raise", devices |-> <<>>]} \cup
             {[kind |-> "list", devices |-> l] : l \in lists}

\* what a pass remembers of an outcome: that it raised, or the keys it reported
ReportOf(o) ==
    [kind |-> o.kind,
     keys |-> {stable_key(o.devices[i].device_id) : i \in 1..Len(o.devices)}]

\* outcomes of provider.read_battery(device_id): a reading, None, or it raises
ReadOutcomes(p) ==
    {[kind |-> "reading", reading |-> Some(r)] : r \in ReadingsOf(p)} \cup
    {[kind |-> "none", reading |-> None], [kind |-> "raise", reading |-> None]}

(***************************************************************************)
(* _DeviceManagerCore                                                      *)
(***************************************************************************)
\* a reference no live object has (a new object is distinct from every live one)
NewRef(h) ==
    LET free == (1..(Cardinality(DOMAIN h) + 1)) \ DOMAIN h
    IN  CHOOSE r \in free : \A q \in free : r <= q

\* objects no longer referenced are gone
Collect(h, roots) == [r \in (DOMAIN h \cap roots) |-> h[r]]

OptRefs(o) == IF IsSome(o) THEN {Val(o)} ELSE {}

get_device(devices, stable_key_) ==
    IF stable_key_ \in DOMAIN devices THEN Some(devices[stable_key_]) ELSE None

\* list(self._devices.values()): the references of the tracked objects
get_all_devices(devices) == Range(devices)

\* try: found = provider.discover()  except Exception: log; continue
discover_unguarded(o) ==
    [escaped |-> o.kind = "raise", devices |-> o.devices]

discover_guarded(o) ==
    [escaped |-> FALSE, devices |-> IF o.kind = "raise" THEN <<>> ELSE o.devices]

\* a pass that keeps the first provider of a key but the record reported last
RECURSIVE claim_found_last_record(_, _, _)
claim_found_last_record(st, provider, devs) ==
    IF devs = <<>> THEN st
    ELSE LET device_info == Head(devs)
             key == stable_key(device_info.device_id)
             r == NewRef(st.heap)
         IN  claim_found_last_record(
                 [seen_keys |-> (key :> r) @@ st.seen_keys,
                  seen_providers |-> st.seen_providers @@ (key :> provider),
                  heap |-> (r :> device_info) @@ st.heap],
                 provider, Tail(devs))

\* for device_info in found: claim the key unless it is claimed already
RECURSIVE claim_found(_, _, _)
claim_found(st, provider, devs) ==
    IF devs = <<>> THEN st
    ELSE LET device_info == Head(devs)
             key == stable_key(device_info.device_id)
             r == NewRef(st.heap)
         IN  IF key \notin DOMAIN st.seen_keys
             THEN claim_found(
                      [seen_keys |-> (key :> r) @@ st.seen_keys,
                       seen_providers |-> (key :> provider) @@ st.seen_providers,
                       heap |-> (r :> device_info) @@ st.heap],
                      provider, Tail(devs))
             ELSE claim_found(st, provider, Tail(devs))

\* added = set(seen_keys) - set(self._devices); removed = the converse
reconcile_swapped(devices, seen) ==
    [added |-> DOMAIN devices \ DOMAIN seen,
     removed |-> DOMAIN seen \ DOMAIN devices]

\* a pass that announces every key it saw, tracked before or not
reconcile_all_seen(devices, seen) ==
    [added |-> DOMAIN seen, removed |-> DOMAIN devices \ DOMAIN seen]

reconcile(devices, seen) ==
    [added |-> DOMAIN seen \ DOMAIN devices,
     removed |-> DOMAIN devices \ DOMAIN seen]

\* self._devices = seen_keys; self._device_provider = seen_providers
replace_maps_updating(devices, owners, seen, seen_owners) ==
    [devices |-> seen @@ devices, owners |-> seen_owners @@ owners]

replace_maps(devices, owners, seen, seen_owners) ==
    [devices |-> seen, owners |-> seen_owners]

\* try: reading = provider.read_battery(..); if reading: device.battery = reading
\* except Exception: log
read_into_clearing(device, o) ==
    [device |-> [device EXCEPT !.battery = o.reading],
     stored |-> o.kind = "reading", escaped |-> FALSE]

read_into(device, o) ==
    [device |-> IF o.kind = "reading" THEN [device EXCEPT !.battery = o.reading]
                ELSE device,
     stored |-> o.kind = "reading", escaped |-> FALSE]

\* provider = self._device_provider.get(key): the provider asked for the battery
poller_of_last(owners, providers, key) == providers[Len(providers)]

poller_of(owners, providers, key) == owners[key]

\* for key, device in list(self._devices.items()): ...
RECURSIVE poll_keys(_, _, _, _, _)
poll_keys(st, keys, devices, owners, out) ==
    IF keys = {} \/ st.escaped THEN st
    ELSE LET key == CHOOSE k \in keys : TRUE
             rest == keys \ {key}
         IN  IF key \notin DOMAIN owners
             THEN poll_keys(st, rest, devices, owners, out)
             ELSE LET r == devices[key]
                      got == read_into(st.heap[r], out[key])
                  IN  poll_keys(
                          [heap |-> [st.heap EXCEPT ![r] = got.device],
                           results |-> IF got.stored
                                       THEN (key :> Val(out[key].reading)) @@ st.results
                                       ELSE st.results,
                           polled |-> (key :> out[key].kind) @@ st.polled,
                           escaped |-> got.escaped],
                          rest, devices, owners, out)

\* every stable key a provider can report
AllKeys == {stable_key(id) : id \in UNION {DeviceIdsOf(p) : p \in ProviderNames}}

AllReadOutcomes == UNION {ReadOutcomes(p) : p \in ProviderNames}

\* QTimer.singleShot(2000, ...): the delay of a hotplug callback, in seconds
HotplugDelay == 2

\* self._debounce_timer.start(2000), in seconds
DebounceSeconds == 2

(***************************************************************************)
(* Actions of the device manager                                           *)
(***************************************************************************)
otherVarsOfMgr == <<keyVars, notifVars, hotVars, trayVars, sendVars, codecVars,
             uploadVars, extVars>>

\* the same without the history of emitted signals
otherVarsOfPass == <<keyVars, notifVars, hotVars, trayVars, sendVars, codecVars,
                     uploadVars, mgr_stopped, hid, watch>>

\* history of the emitted signals, kept by the specification that reads it
\* (log.on): a pass begins with the owner map it found and no key signalled
pass_begun(log, owners) ==
    IF ~log.on THEN log
    ELSE [log EXCEPT !.in_pass = {}, !.owners_before = owners,
                     !.prior = "none", !.again = FALSE]

\* history: signal `kind` is emitted for `key`; prior is the signal emitted
\* for the key before, again tells that this pass signalled the key already
signal_logged(log, kind, key) ==
    IF ~log.on THEN log
    ELSE [log EXCEPT !.last[key] = kind, !.prior = log.last[key],
                     !.again = key \in log.in_pass,
                     !.in_pass = @ \cup {key}]

\* history: the operation returned to the event loop
pass_ended(log) ==
    IF ~log.on THEN log
    ELSE [log EXCEPT !.in_pass = {}, !.owners_before = EmptyMap,
                     !.prior = "none", !.again = FALSE]

\* register_provider(provider); each provider object is registered once
RegisterProvider(p) ==
    /\ pc = "idle"
    /\ p \notin Range(_providers)
    /\ scenario => p \in ScenarioProviders
    /\ _providers' = register_provider(_providers, p)
    /\ UNCHANGED <<_devices, _device_provider, heap, pc, di, seen_keys,
                   seen_providers, added, removed, escaped, scenario, old_keys,
                   found, results, polled, delivered, held, held_value>>
    /\ UNCHANGED otherVarsOfMgr
    /\ ran_on' = "main"

\* run_discovery entry: seen_keys = {}; seen_providers = {}
BeginDiscovery ==
    /\ pc = "idle"
    /\ pc' = "discover"
    /\ di' = 1
    /\ seen_keys' = EmptyMap
    /\ seen_providers' = EmptyMap
    /\ old_keys' = DOMAIN _devices
    /\ found' = EmptyMap
    /\ escaped' = FALSE
    /\ UNCHANGED <<_providers, _devices, _device_provider, heap, added, removed,
                   scenario, results, polled, delivered, held, held_value>>
    /\ event_log' = pass_begun(event_log, _device_provider)
    /\ UNCHANGED otherVarsOfPass
    /\ ran_on' = "main"

\* run_discovery, one iteration of `for provider in self._providers`, the
\* provider's discover() ending as o
DiscoverWith(o) ==
    /\ LET provider == _providers[di]
           got == discover_guarded(o)
           st == claim_found([seen_keys |-> seen_keys,
                              seen_providers |-> seen_providers,
                              heap |-> heap], provider, got.devices)
       IN  /\ found' = (provider :> ReportOf(o)) @@ found
           /\ IF got.escaped
              THEN /\ escaped' = TRUE
                   /\ pc' = "idle"
                   /\ UNCHANGED <<seen_keys, seen_providers, heap, di>>
              ELSE /\ seen_keys' = st.seen_keys
                   /\ seen_providers' = st.seen_providers
                   /\ heap' = st.heap
                   /\ di' = di + 1
                   /\ UNCHANGED <<escaped, pc>>
    /\ UNCHANGED <<_providers, _devices, _device_provider, added, removed,
                   scenario, old_keys, results, polled, delivered, held, held_value>>
    /\ ran_on' = "main"

\* run_discovery, one iteration of `for provider in self._providers`
DiscoverStep ==
    /\ pc = "discover"
    /\ di <= Len(_providers)
    /\ \E o \in DiscoverOutcomes(_providers[di]) : DiscoverWith(o)
    /\ UNCHANGED otherVarsOfMgr

\* run_discovery after the loop: added / removed, replace both maps, return
ReturnDiscovery ==
    /\ pc = "discover"
    /\ di > Len(_providers)
    /\ LET d == reconcile(_devices, seen_keys)
       IN  /\ added' = d.added
           /\ removed' = d.removed
    /\ LET m == replace_maps(_devices, _device_provider, seen_keys, seen_providers)
       IN  /\ _devices' = m.devices
           /\ _device_provider' = m.owners
    /\ heap' = Collect(heap, Range(_devices') \cup OptRefs(held))
    /\ seen_keys' = EmptyMap
    /\ seen_providers' = EmptyMap
    /\ pc' = "returned"
    /\ UNCHANGED <<_providers, di, escaped, scenario, old_keys, found, results,
                   polled, delivered, held, held_value>>
    /\ UNCHANGED otherVarsOfMgr
    /\ ran_on' = "main"

\* DeviceManager._run_discovery after the core returned: one signal emission
\* (removed keys first, then added keys), delivered to its slot at once
EmitEvent ==
    /\ pc \in {"returned", "emit"}
    /\ removed \cup added # {}
    /\ pc' = "emit"
    /\ IF removed # {}
       THEN \E key \in removed :
              /\ removed' = removed \ {key}
              /\ delivered' = Some([signal |-> "device_removed", key |-> key,
                                    device |-> get_device(_devices, key)])
              /\ event_log' = signal_logged(event_log, "removed", key)
              /\ UNCHANGED added
       ELSE \E key \in added :
              LET device == get_device(_devices, key)
              IN  /\ added' = added \ {key}
                  /\ delivered' = IF IsSome(device)
                                  THEN Some([signal |-> "device_added", key |-> key,
                                             device |-> device])
                                  ELSE delivered
                  /\ event_log' = IF IsSome(device)
                                  THEN signal_logged(event_log, "added", key)
                                  ELSE event_log
                  /\ UNCHANGED removed
    /\ UNCHANGED <<_providers, _devices, _device_provider, heap, di, seen_keys,
                   seen_providers, escaped, scenario, old_keys, found, results,
                   polled, held, held_value>>
    /\ UNCHANGED otherVarsOfPass
    /\ ran_on' = "main"

\* DeviceManager._run_discovery returns to the event loop
FinishDiscovery ==
    /\ pc \in {"returned", "emit"}
    /\ removed \cup added = {}
    /\ pc' = "idle"
    /\ old_keys' = {}
    /\ found' = EmptyMap
    /\ delivered' = None
    /\ UNCHANGED <<_providers, _devices, _device_provider, heap, di, seen_keys,
                   seen_providers, added, removed, escaped, scenario, results,
                   polled, held, held_value>>
    /\ event_log' = pass_ended(event_log)
    /\ UNCHANGED otherVarsOfPass
    /\ ran_on' = "main"

\* poll_all_batteries: from the battery timer (idle), or as the second half of
\* scan_once (right after run_discovery returned)
PollAllBatteries ==
    /\ pc \in {"idle", "returned"}
    /\ \E out \in [DOMAIN _devices -> AllReadOutcomes] :
          /\ \A k \in DOMAIN _devices :
                out[k] \in ReadOutcomes(poller_of(_device_provider, _providers, k))
          /\ LET st == poll_keys([heap |-> heap, results |-> EmptyMap,
                                  polled |-> EmptyMap, escaped |-> FALSE],
                                 DOMAIN _devices, _devices, _device_provider, out)
             IN  /\ heap' = st.heap
                 /\ results' = st.results
                 /\ polled' = st.polled
                 /\ escaped' = st.escaped
    /\ pc' = "polled"
    /\ added' = {}
    /\ removed' = {}
    /\ UNCHANGED <<_providers, _devices, _device_provider, di, seen_keys,
                   seen_providers, scenario, old_keys, found, delivered, held,
                   held_value>>
    /\ UNCHANGED otherVarsOfMgr
    /\ ran_on' = "main"

\* refresh_battery(stable_key)
RefreshBattery(key) ==
    /\ pc = "idle"
    /\ IF key \in DOMAIN _device_provider /\ key \in DOMAIN _devices
       THEN \E o \in ReadOutcomes(poller_of(_device_provider, _providers, key)) :
              LET r == _devices[key]
                  got == read_into(heap[r], o)
              IN  /\ heap' = [heap EXCEPT ![r] = got.device]
                  /\ results' = IF o.kind = "reading"
                                THEN (key :> Val(o.reading)) ELSE EmptyMap
                  /\ polled' = (key :> o.kind)
                  /\ escaped' = got.escaped
       ELSE /\ results' = EmptyMap
            /\ polled' = EmptyMap
            /\ escaped' = FALSE
            /\ UNCHANGED heap
    /\ pc' = "polled"
    /\ UNCHANGED <<_providers, _devices, _device_provider, di, seen_keys,
                   seen_providers, added, removed, scenario, old_keys, found,
                   delivered, held, held_value>>
    /\ UNCHANGED otherVarsOfMgr
    /\ ran_on' = "main"

\* poll_all_batteries / refresh_battery / scan_once return to the caller
FinishPoll ==
    /\ pc = "polled"
    /\ pc' = "idle"
    /\ results' = EmptyMap
    /\ polled' = EmptyMap
    /\ old_keys' = {}
    /\ found' = EmptyMap
    /\ UNCHANGED <<_providers, _devices, _device_provider, heap, di, seen_keys,
                   seen_providers, added, removed, escaped, scenario, delivered,
                   held, held_value>>
    /\ event_log' = pass_ended(event_log)
    /\ UNCHANGED otherVarsOfPass
    /\ ran_on' = "main"

\* a consumer calls get_device(stable_key) and keeps what it returned
GetDevice(key) ==
    /\ pc = "idle"
    /\ held' = get_device(_devices, key)
    /\ held_value' = IF IsSome(held') THEN Some(heap[Val(held')]) ELSE None
    /\ heap' = Collect(heap, Range(_devices) \cup OptRefs(held'))
    /\ UNCHANGED <<_providers, _devices, _device_provider, pc, di, seen_keys,
                   seen_providers, added, removed, escaped, scenario, old_keys,
                   found, results, polled, delivered>>
    /\ UNCHANGED otherVarsOfMgr
    /\ ran_on' = "main"

\* a consumer calls get_all_devices() and keeps one element of the list
GetAllDevices ==
    /\ pc = "idle"
    /\ \E r \in get_all_devices(_devices) :
          /\ held' = Some(r)
          /\ held_value' = Some(heap[r])
          /\ heap' = Collect(heap, Range(_devices) \cup {r})
    /\ UNCHANGED <<_providers, _devices, _device_provider, pc, di, seen_keys,
                   seen_providers, added, removed, escaped, scenario, old_keys,
                   found, results, polled, delivered>>
    /\ UNCHANGED otherVarsOfMgr
    /\ ran_on' = "main"

KeyIdle ==
    /\ id_a = [provider |-> "UPOWER", path |-> "/dev/hidraw1", vendor_id |-> None,
               product_id |-> None, serial |-> None]
    /\ id_b = id_a
    /\ key_a = None
    /\ key_b = None

NotifIdle ==
    /\ notif_state = None
    /\ config = [enabled |-> TRUE, thresholds |-> <<20, 10, 5>>,
                 charging_notify |-> TRUE, full_notify |-> TRUE]
    /\ sent = <<>>
    /\ raised = FALSE
    /\ fed = 0
    /\ last_edge = "none"
    /\ life_edge = "none"
    /\ last_reading = None
    /\ tracked = FALSE
    /\ period_full = 0
    /\ run_full = 0

\* no watcher callback has arrived and no singleShot timer is pending
HotIdle ==
    /\ shots = <<>>
    /\ since_event = HotplugDelay
    /\ burst = 0
    /\ burst_lost = FALSE
    /\ burst_passes = 0
    /\ early_pass = FALSE

\* BatteryTrayIcon.__init__ of the HyperX tray, before its initial read
TrayIdle ==
    /\ battery_percent = None
    /\ error = None
    /\ _was_charging = FALSE
    /\ _notified_thresholds = {}
    /\ _retry_count = 0
    /\ _debounce_timer = None
    /\ _retry_timer = None
    /\ last_try = "none"
    /\ settle_retries = 0
    /\ window_attempt = FALSE
    /\ tray_burst = [signals |-> 0, since |-> DebounceSeconds, settled |-> 0,
                     early |-> FALSE]

SendIdle == hid_call = None

\* no encoder or decoder has been called
CodecIdle == codec = [op |-> "none", args |-> <<>>, out |-> <<>>]

\* no macro upload is in progress
UploadIdle ==
    upload = [via |-> "none", dev_open |-> FALSE, packets |-> <<>>,
              log |-> <<>>, result |-> "idle"]

\* no signal has been emitted yet
NoEvents(on) ==
    [on |-> on, last |-> [key \in AllKeys |-> "none"], in_pass |-> {},
     owners_before |-> EmptyMap, prior |-> "none", again |-> FALSE]

\* no signal has been emitted, stop() has not been called
EventIdle ==
    /\ event_log = NoEvents(FALSE)
    /\ mgr_stopped = FALSE

\* HidDriverProvider.__init__
HidIdle ==
    /\ hid = [_active |-> EmptyMap, _device_infos |-> EmptyMap,
              call |-> "none", arg |-> <<>>, result |-> <<>>,
              before |-> EmptyMap, closed |-> {}]
    /\ watch = [_watching |-> FALSE, _watch_callback |-> None,
                threads |-> <<>>, stop_pc |-> "none", called_none |-> FALSE,
                late_call |-> FALSE]

ExtIdle == EventIdle /\ HidIdle

RestIdle ==
    HotIdle /\ TrayIdle /\ SendIdle /\ CodecIdle /\ UploadIdle /\ ExtIdle

\* _DeviceManagerCore.__init__
MgrInit ==
    /\ _providers = <<>>
    /\ _devices = EmptyMap
    /\ _device_provider = EmptyMap
    /\ heap = EmptyMap
    /\ pc = "idle"
    /\ di = 1
    /\ seen_keys = EmptyMap
    /\ seen_providers = EmptyMap
    /\ added = {}
    /\ removed = {}
    /\ escaped = FALSE
    /\ old_keys = {}
    /\ found = EmptyMap
    /\ results = EmptyMap
    /\ polled = EmptyMap
    /\ delivered = None
    /\ held = None
    /\ held_value = None
    /\ ran_on = "main"

Init == MgrInit /\ scenario = FALSE /\ KeyIdle /\ NotifIdle /\ RestIdle

InitScenario == MgrInit /\ scenario = TRUE /\ KeyIdle /\ NotifIdle /\ RestIdle

Next ==
    \/ \E p \in ProviderNames : RegisterProvider(p)
    \/ BeginDiscovery
    \/ DiscoverStep
    \/ ReturnDiscovery
    \/ EmitEvent
    \/ FinishDiscovery
    \/ PollAllBatteries
    \/ \E key \in AllKeys : RefreshBattery(key)
    \/ FinishPoll

\* the manager together with a consumer of its query surface
NextWithConsumer ==
    \/ Next
    \/ \E key \in AllKeys : GetDevice(key)
    \/ GetAllDevices

\* the device manager under every environment
Spec == Init /\ [][Next]_vars

\* the device manager and a consumer, in the environment of the end-to-end
\* scenario: UPower (priority 10) measures 60 %, HID (priority 30) measures 58 %
SpecScenario == InitScenario /\ [][NextWithConsumer]_vars

\* the battery timer: _poll_all_batteries from the event loop
BatteryTimeout ==
    /\ pc = "idle"
    /\ PollAllBatteries

\* the Qt device manager: every discovery pass is one _run_discovery (start,
\* the discovery timer, a hotplug timer) and emits its signals
NextEvents ==
    \/ \E p \in ProviderNames : RegisterProvider(p)
    \/ BeginDiscovery
    \/ DiscoverStep
    \/ ReturnDiscovery
    \/ EmitEvent
    \/ FinishDiscovery
    \/ BatteryTimeout
    \/ FinishPoll

InitEvents ==
    /\ MgrInit /\ scenario = FALSE /\ KeyIdle /\ NotifIdle
    /\ HotIdle /\ TrayIdle /\ SendIdle /\ CodecIdle /\ UploadIdle /\ HidIdle
    /\ event_log = NoEvents(TRUE)
    /\ mgr_stopped = FALSE

SpecEvents == InitEvents /\ [][NextEvents]_vars

(***************************************************************************)
(* DeviceManager hotplug handling (manager.py 165-168, 204-214)            *)
(***************************************************************************)
\* the providers whose supports_hotplug() is true
HotplugProviders == {"UPower", "HID"}

\* the thread a provider's watcher calls on_change from: the pyudev thread
\* of the HID provider, the event loop's D-Bus dispatch for UPower
WatcherThread(p) == IF p = "HID" THEN "watcher" ELSE "main"

\* pending singleShot timers the model keeps at once
MaxShots == 2

\* the callback running the discovery pass itself, on the calling thread
_on_hotplug_event_in_place(st, started) ==
    [st EXCEPT !.pc = "discover", !.di = 1]

\* _on_hotplug_event: QTimer.singleShot(2000, self._run_discovery); `started`
\* tells whether Qt could start the timer for the calling thread
_on_hotplug_event(st, started) ==
    [st EXCEPT !.shots = IF started THEN Append(@, HotplugDelay) ELSE @]

NoShotDue == \A i \in 1..Len(shots) : shots[i] > 0

\* a watcher of a registered provider reports a change. A thread without a
\* Qt event loop (the pyudev thread) may be unable to start the timer.
HotplugCallback(p) ==
    /\ p \in Range(_providers) \cap HotplugProviders
    /\ WatcherThread(p) = "main" => pc = "idle"
    /\ Len(shots) < MaxShots
    /\ NoShotDue
    /\ \E started \in (IF WatcherThread(p) = "main" THEN {TRUE} ELSE BOOLEAN) :
          LET st == _on_hotplug_event([shots |-> shots, pc |-> pc, di |-> di],
                                      started)
          IN  /\ shots' = st.shots
              /\ pc' = st.pc
              /\ di' = st.di
              /\ burst_lost' = IF since_event >= HotplugDelay /\ shots = <<>>
                               THEN ~started ELSE (burst_lost \/ ~started)
    /\ ran_on' = WatcherThread(p)
    /\ burst' = IF since_event >= HotplugDelay /\ shots = <<>> THEN 1
                ELSE IF burst < MaxShots THEN burst + 1 ELSE burst
    /\ burst_passes' = IF since_event >= HotplugDelay /\ shots = <<>> THEN 0
                       ELSE burst_passes
    /\ since_event' = 0
    /\ UNCHANGED <<_providers, _devices, _device_provider, heap, seen_keys,
                   seen_providers, added, removed, escaped, scenario, old_keys,
                   found, results, polled, delivered, held, held_value>>
    /\ UNCHANGED <<early_pass, keyVars, notifVars, trayVars, sendVars, codecVars,
                 uploadVars, extVars>>

\* one second passes while the event loop is idle and no timer is due
Tick ==
    /\ pc = "idle"
    /\ NoShotDue
    /\ shots # <<>> \/ since_event < HotplugDelay
    /\ shots' = [i \in 1..Len(shots) |-> shots[i] - 1]
    /\ since_event' = IF since_event < HotplugDelay THEN since_event + 1
                      ELSE since_event
    /\ UNCHANGED <<burst, burst_lost, burst_passes, early_pass>>
    /\ UNCHANGED <<mgrVars, keyVars, notifVars, trayVars, sendVars, codecVars,
                 uploadVars, extVars>>

\* a singleShot timer expires: the event loop calls _run_discovery
HotplugTimerFire ==
    /\ pc = "idle"
    /\ shots # <<>>
    /\ Head(shots) = 0
    /\ shots' = Tail(shots)
    /\ burst_passes' = IF burst_passes <= MaxShots THEN burst_passes + 1
                       ELSE burst_passes
    /\ early_pass' = (early_pass \/ since_event < HotplugDelay)
    /\ pc' = "discover"
    /\ di' = 1
    /\ seen_keys' = EmptyMap
    /\ seen_providers' = EmptyMap
    /\ old_keys' = DOMAIN _devices
    /\ found' = EmptyMap
    /\ escaped' = FALSE
    /\ event_log' = pass_begun(event_log, _device_provider)
    /\ ran_on' = "main"
    /\ UNCHANGED <<_providers, _devices, _device_provider, heap, added, removed,
                   scenario, results, polled, delivered, held, held_value>>
    /\ UNCHANGED <<since_event, burst, burst_lost, keyVars, notifVars, trayVars,
                   sendVars, codecVars, uploadVars, mgr_stopped, hid, watch>>

NextHotplug ==
    \/ Next
    \/ \E p \in ProviderNames : HotplugCallback(p)
    \/ Tick
    \/ HotplugTimerFire

\* the Qt device manager with its watchers, in the two-provider environment
SpecHotplug == InitScenario /\ [][NextHotplug]_vars

(***************************************************************************)
(* Stable-key derivation on drawn identities                               *)
(***************************************************************************)
MgrIdle == MgrInit /\ scenario = FALSE

InitKey ==
    /\ id_a \in Identities
    /\ id_b \in Identities
    /\ key_a = None
    /\ key_b = None
    /\ MgrIdle
    /\ NotifIdle
    /\ RestIdle

\* both identities have their stable_key property read
ReadStableKeys ==
    /\ key_a = None
    /\ key_a' = Some(stable_key(id_a))
    /\ key_b' = Some(stable_key(id_b))
    /\ UNCHANGED <<id_a, id_b, mgrVars, notifVars, hotVars, trayVars, sendVars, codecVars,
                 uploadVars, extVars>>

NextKey == ReadStableKeys

SpecKey == InitKey /\ [][NextKey]_vars

(***************************************************************************)
(* BatteryTrayIcon._check_notifications (plasmangenuity/tray.py)           *)
(***************************************************************************)
\* a marker of the fired set: a threshold (an int) or the string "full"
IntMarker(t) == [type |-> "int", int |-> t, str |-> ""]
StrMarker(x) == [type |-> "str", int |-> 0, str |-> x]
FullMarker == StrMarker("full")

\* sorted(thresholds, reverse=True)
RECURSIVE InsertDescending(_, _)
InsertDescending(s, t) ==
    IF s = <<>> THEN <<t>>
    ELSE IF Head(s) >= t THEN <<Head(s)>> \o InsertDescending(Tail(s), t)
         ELSE <<t>> \o s

RECURSIVE SortedDescending(_)
SortedDescending(s) ==
    IF s = <<>> THEN <<>>
    ELSE InsertDescending(SortedDescending(SubSeq(s, 1, Len(s) - 1)), s[Len(s)])

\* state = {"prev_battery": None, "was_charging": False, "thresholds": set()}
FreshNotifState ==
    [prev_battery |-> None, was_charging |-> FALSE, thresholds |-> {}]

\* the charging edge without state["was_charging"] = charging
charging_edge_stale(st, cfg, charging) ==
    LET fired == cfg.charging_notify /\ charging /\ ~st.state.was_charging
        stopped == cfg.charging_notify /\ ~charging /\ st.state.was_charging
    IN  [st EXCEPT
           !.sent = IF fired THEN Append(@, [kind |-> "charging_started", threshold |-> 0])
                    ELSE IF stopped
                    THEN Append(@, [kind |-> "charging_stopped", threshold |-> 0])
                    ELSE @,
           !.state.thresholds = IF fired THEN {} ELSE @]

\* lines 345-357: the charging edge, then state["was_charging"] = charging
charging_edge(st, cfg, charging) ==
    LET fired == cfg.charging_notify /\ charging /\ ~st.state.was_charging
        stopped == cfg.charging_notify /\ ~charging /\ st.state.was_charging
    IN  [st EXCEPT
           !.sent = IF fired THEN Append(@, [kind |-> "charging_started", threshold |-> 0])
                    ELSE IF stopped
                    THEN Append(@, [kind |-> "charging_stopped", threshold |-> 0])
                    ELSE @,
           !.state.thresholds = IF fired THEN {} ELSE @,
           !.state.was_charging = charging]

\* fully charged, without adding the "full" marker
full_edge_unmarked(st, cfg, battery, charging) ==
    IF cfg.full_notify /\ charging /\ battery = Some(100)
       /\ FullMarker \notin st.state.thresholds
    THEN [st EXCEPT
            !.sent = Append(@, [kind |-> "fully_charged", threshold |-> 0])]
    ELSE st

\* lines 359-363: fully charged
full_edge(st, cfg, battery, charging) ==
    IF cfg.full_notify /\ charging /\ battery = Some(100)
       /\ FullMarker \notin st.state.thresholds
    THEN [st EXCEPT
            !.sent = Append(@, [kind |-> "fully_charged", threshold |-> 0]),
            !.state.thresholds = @ \cup {FullMarker}]
    ELSE st

\* the loop without the test of the fired set
RECURSIVE low_battery_loop_refiring(_, _, _, _)
low_battery_loop_refiring(st, thresholds, battery, prev_battery) ==
    IF thresholds = <<>> THEN st
    ELSE LET threshold == Head(thresholds)
             fire == battery <= threshold /\ threshold < prev_battery
             st2 == IF fire
                    THEN [st EXCEPT
                            !.sent = Append(@, [kind |-> "low_battery",
                                                threshold |-> threshold]),
                            !.state.thresholds = @ \cup {IntMarker(threshold)}]
                    ELSE st
         IN  low_battery_loop_refiring(st2, Tail(thresholds), battery,
                                       prev_battery)

\* lines 368-377: for threshold in thresholds: ...
RECURSIVE low_battery_loop(_, _, _, _)
low_battery_loop(st, thresholds, battery, prev_battery) ==
    IF thresholds = <<>> THEN st
    ELSE LET threshold == Head(thresholds)
             fire == /\ battery <= threshold
                     /\ threshold < prev_battery
                     /\ IntMarker(threshold) \notin st.state.thresholds
             st2 == IF fire
                    THEN [st EXCEPT
                            !.sent = Append(@, [kind |-> "low_battery",
                                                threshold |-> threshold]),
                            !.state.thresholds = @ \cup {IntMarker(threshold)}]
                    ELSE st
         IN  low_battery_loop(st2, Tail(thresholds), battery, prev_battery)

\* lines 366-367
low_battery(st, cfg, battery, charging) ==
    IF ~charging /\ IsSome(st.state.prev_battery) /\ IsSome(battery)
    THEN low_battery_loop(st, SortedDescending(cfg.thresholds), Val(battery),
                          Val(st.state.prev_battery))
    ELSE st

\* lines 380-381: {t for t in state["thresholds"] if t < battery}; comparing
\* a str marker with the int battery raises TypeError
reset_thresholds(st, battery) ==
    IF IsSome(st.state.prev_battery) /\ IsSome(battery)
       /\ Val(battery) > Val(st.state.prev_battery)
    THEN IF \E t \in st.state.thresholds : t.type = "str"
         THEN [st EXCEPT !.raised = TRUE]
         ELSE [st EXCEPT !.state.thresholds = {t \in @ : t.int < Val(battery)}]
    ELSE st

\* _check_notifications(stable_key, reading) on the state dict of that key;
\* an exception leaves the function before state["prev_battery"] = battery
check_notifications(state_opt, cfg, reading) ==
    IF ~cfg.enabled
    THEN [state |-> state_opt, sent |-> <<>>, raised |-> FALSE]
    ELSE LET state == IF IsSome(state_opt) THEN Val(state_opt) ELSE FreshNotifState
             battery == reading.percent
             charging == reading.is_charging
             s0 == [state |-> state, sent |-> <<>>, raised |-> FALSE]
             s1 == charging_edge(s0, cfg, charging)
             s2 == full_edge(s1, cfg, battery, charging)
             s3 == low_battery(s2, cfg, battery, charging)
             s4 == reset_thresholds(s3, battery)
         IN  [state |-> Some(IF s4.raised THEN s4.state
                             ELSE [s4.state EXCEPT !.prev_battery = battery]),
              sent |-> s4.sent, raised |-> s4.raised]

\* percents fed to the notification check: the thresholds and their neighbours
NotifPercents == {0, 4, 5, 6, 9, 10, 11, 15, 19, 20, 21, 25, 30, 99, 100}

NotifReadings ==
    [percent : {None} \cup {Some(p) : p \in NotifPercents}, is_charging : BOOLEAN]

\* DEFAULTS["notifications"]
DefaultNotifications ==
    [enabled |-> TRUE, thresholds |-> <<20, 10, 5>>,
     charging_notify |-> TRUE, full_notify |-> TRUE]

NotifConfigs ==
    [enabled : BOOLEAN, thresholds : {<<20, 10, 5>>, <<5, 20, 20>>},
     charging_notify : BOOLEAN, full_notify : BOOLEAN]

\* the readings of the threshold example: percents of a discharging device
ExamplePercents == <<30, 15, 5, 25, 9>>

\* how far the readings fed to a fresh state follow the example; -1 once they
\* have left it
fed_after(n, reading) ==
    IF /\ n >= 0 /\ n < Len(ExamplePercents)
       /\ reading = [percent |-> Some(ExamplePercents[n + 1]), is_charging |-> FALSE]
    THEN n + 1
    ELSE -1

\* the charging notification among those sent, if any
edge_after(edge, notes) ==
    IF \E i \in 1..Len(notes) : notes[i].kind = "charging_started"
    THEN "started"
    ELSE IF \E i \in 1..Len(notes) : notes[i].kind = "charging_stopped"
    THEN "stopped"
    ELSE edge

InitNotif ==
    /\ notif_state = None
    /\ config \in NotifConfigs
    /\ sent = <<>>
    /\ raised = FALSE
    /\ fed = 0
    /\ last_edge = "none"
    /\ life_edge = "none"
    /\ last_reading = None
    /\ tracked = FALSE
    /\ period_full = 0
    /\ run_full = 0
    /\ MgrIdle
    /\ KeyIdle
    /\ RestIdle

notifOthers == <<mgrVars, keyVars, hotVars, trayVars, sendVars, codecVars,
             uploadVars, extVars>>

\* the history counters of "fully charged" stop counting here
MaxFullCount == 2

\* "fully charged" notifications counted over a run of charging readings;
\* a reading that is not charging starts the count again
full_after(n, reading, notes) ==
    LET more == Cardinality({i \in 1..Len(notes) :
                               notes[i].kind = "fully_charged"})
    IN  IF ~reading.is_charging THEN 0
        ELSE IF n + more > MaxFullCount THEN MaxFullCount
        ELSE n + more

\* _on_battery_updated: device = self._manager.get_device(stable_key);
\* if device: self._check_notifications(stable_key, reading)
CheckNotifications(reading) ==
    LET out == check_notifications(notif_state, config, reading)
    IN  /\ tracked
        /\ notif_state' = out.state
        /\ period_full' = full_after(period_full, reading, out.sent)
        /\ run_full' = full_after(run_full, reading, out.sent)
        /\ UNCHANGED tracked
        /\ sent' = out.sent
        /\ raised' = out.raised
        /\ fed' = fed_after(fed, reading)
        /\ last_edge' = edge_after(last_edge, out.sent)
        /\ life_edge' = edge_after(life_edge, out.sent)
        /\ last_reading' = Some(reading)
        /\ UNCHANGED <<config, notifOthers>>

\* removal that leaves the state dict of the key in place
on_device_removed_keeping(state_opt) == state_opt

\* _on_device_removed: self._notif_state.pop(stable_key, None)
on_device_removed(state_opt) == None

\* _on_device_added: self._notif_state.setdefault(key, {...})
on_device_added(state_opt) ==
    IF IsSome(state_opt) THEN state_opt ELSE Some(FreshNotifState)

\* device_added, emitted by the manager when a pass first reports the key
DeviceAdded ==
    /\ ~tracked
    /\ tracked' = TRUE
    /\ notif_state' = on_device_added(notif_state)
    /\ UNCHANGED <<period_full, run_full>>
    /\ sent' = <<>>
    /\ raised' = FALSE
    /\ last_reading' = None
    /\ UNCHANGED <<config, fed, last_edge, life_edge, notifOthers>>

\* device_removed, emitted by the manager when a pass no longer reports the key
DeviceRemoved ==
    /\ tracked
    /\ tracked' = FALSE
    /\ notif_state' = on_device_removed(notif_state)
    /\ run_full' = 0
    /\ UNCHANGED period_full
    /\ sent' = <<>>
    /\ raised' = FALSE
    /\ fed' = 0
    /\ life_edge' = "none"
    /\ last_reading' = None
    /\ UNCHANGED <<config, last_edge, notifOthers>>

NextNotif ==
    \/ \E reading \in NotifReadings : CheckNotifications(reading)
    \/ DeviceAdded
    \/ DeviceRemoved

SpecNotif == InitNotif /\ [][NextNotif]_vars

(***************************************************************************)
(* DeviceManager.stop (manager.py 190-194, 124-134)                        *)
(***************************************************************************)
\* stop(): _discovery_timer.stop(); _battery_timer.stop(); _core.close(),
\* which stops every provider's watcher. Called from the event loop, between
\* two operations. The timers posted with QTimer.singleShot have no handle
\* and stay posted.
Stop ==
    /\ pc = "idle"
    /\ ~mgr_stopped
    /\ mgr_stopped' = TRUE
    /\ UNCHANGED <<mgrVars, keyVars, notifVars, hotVars, trayVars, sendVars,
                   codecVars, uploadVars, event_log, hid, watch>>

\* register_provider, before stop()
RegisterWatched(p) ==
    /\ ~mgr_stopped
    /\ RegisterProvider(p)

\* start() and the discovery timer, which stop() stops
DiscoveryTimeout ==
    /\ ~mgr_stopped
    /\ BeginDiscovery

\* the battery timer, which stop() stops
BatteryTimeoutRunning ==
    /\ ~mgr_stopped
    /\ BatteryTimeout

\* a callback of a watcher that stop_watching() has not stopped
WatcherCallback(p) ==
    /\ ~mgr_stopped
    /\ HotplugCallback(p)

NextStop ==
    \/ \E p \in ProviderNames : RegisterWatched(p)
    \/ DiscoveryTimeout
    \/ DiscoverStep
    \/ ReturnDiscovery
    \/ EmitEvent
    \/ FinishDiscovery
    \/ BatteryTimeoutRunning
    \/ FinishPoll
    \/ \E p \in ProviderNames : WatcherCallback(p)
    \/ Tick
    \/ HotplugTimerFire
    \/ Stop

\* the Qt device manager with its watchers, started and then stopped, the
\* event loop running on
SpecStop == InitScenario /\ [][NextStop]_vars

(***************************************************************************)
(* HyperX tray: hotplug debounce and read retries (hyperx_battery/tray.py) *)
(***************************************************************************)
\* DEFAULTS["polling"]["max_retries"]
max_retries == 5
\* DEFAULTS["polling"]["retry_delay_seconds"]
retry_delay_seconds == 2

\* what find_device() and get_battery_status() give update_battery
TrayReads ==
    {[kind |-> "not_found", error |-> "Mouse not found", battery |-> 0,
      charging |-> FALSE],
     [kind |-> "error", error |-> "No response from device", battery |-> 0,
      charging |-> FALSE]}
    \cup [kind : {"ok"}, error : {""}, battery : {58, 100}, charging : BOOLEAN]

\* update_battery on the fields of the tray (icon and menu texts left out);
\* `raised` tells that _check_notifications raised
update_battery(st, o) ==
    IF o.kind = "not_found"
    THEN [st EXCEPT !.battery_percent = None, !.error = Some(o.error),
                    !.raised = FALSE]
    ELSE IF o.kind = "error"
    THEN [st EXCEPT !.error = Some(o.error), !.raised = FALSE]
    ELSE LET out == check_notifications(
                        Some([prev_battery |-> st.battery_percent,
                              was_charging |-> st._was_charging,
                              thresholds |-> st._notified_thresholds]),
                        DefaultNotifications,
                        [percent |-> Some(o.battery), is_charging |-> o.charging])
         IN  [st EXCEPT !.battery_percent = Some(o.battery),
                        !.error = None,
                        !._was_charging = Val(out.state).was_charging,
                        !._notified_thresholds = Val(out.state).thresholds,
                        !.raised = out.raised]

\* _try_update: update_battery, then the retry timer while the read fails
_try_update(st, o) ==
    LET st1 == update_battery(st, o)
    IN  IF ~st1.raised /\ IsSome(st1.error) /\ st1._retry_count < max_retries
        THEN [st1 EXCEPT !._retry_count = @ + 1,
                         !._retry_timer = Some(retry_delay_seconds)]
        ELSE st1

TrayFields ==
    [battery_percent |-> battery_percent, error |-> error,
     _was_charging |-> _was_charging,
     _notified_thresholds |-> _notified_thresholds,
     _retry_count |-> _retry_count, _retry_timer |-> _retry_timer,
     raised |-> FALSE]

SetTrayFields(st) ==
    /\ battery_percent' = st.battery_percent
    /\ error' = st.error
    /\ _was_charging' = st._was_charging
    /\ _notified_thresholds' = st._notified_thresholds
    /\ _retry_count' = st._retry_count
    /\ _retry_timer' = st._retry_timer

TimerDue(t) == IsSome(t) /\ Val(t) = 0
NoTimerDue == ~TimerDue(_debounce_timer) /\ ~TimerDue(_retry_timer)

trayOthers == <<mgrVars, keyVars, notifVars, hotVars, sendVars, codecVars,
             uploadVars, extVars>>

\* signals counted in one burst
MaxSignals == 3

\* a handler that starts the debounce timer only when it is not running
_on_device_event_no_restart(st) ==
    [st EXCEPT !._retry_count = 0,
               !._debounce_timer = IF IsSome(@) THEN @
                                   ELSE Some(DebounceSeconds)]

\* _on_device_event: self._retry_count = 0; self._debounce_timer.start(2000);
\* start() on a running QTimer stops it and starts it again
_on_device_event(st) ==
    [st EXCEPT !._retry_count = 0, !._debounce_timer = Some(DebounceSeconds)]

\* _on_device_event: the udev thread's signal, delivered on the event loop.
\* A signal that comes a full quiet period after the one before begins a
\* new burst.
OnDeviceEvent ==
    /\ NoTimerDue
    /\ LET st == _on_device_event([_retry_count |-> _retry_count,
                                   _debounce_timer |-> _debounce_timer])
       IN  /\ _retry_count' = st._retry_count
           /\ _debounce_timer' = st._debounce_timer
    /\ tray_burst' =
          IF tray_burst.since >= DebounceSeconds
          THEN [tray_burst EXCEPT !.signals = 1, !.since = 0, !.settled = 0]
          ELSE [tray_burst EXCEPT
                  !.signals = IF @ < MaxSignals THEN @ + 1 ELSE @,
                  !.since = 0]
    /\ UNCHANGED <<battery_percent, error, _was_charging, _notified_thresholds,
                   _retry_timer, last_try, settle_retries, window_attempt>>
    /\ UNCHANGED trayOthers

\* one second passes with a timer running and none due
TrayTick ==
    /\ NoTimerDue
    /\ IsSome(_debounce_timer) \/ IsSome(_retry_timer)
    /\ _debounce_timer' = IF IsSome(_debounce_timer)
                          THEN Some(Val(_debounce_timer) - 1) ELSE None
    /\ _retry_timer' = IF IsSome(_retry_timer)
                       THEN Some(Val(_retry_timer) - 1) ELSE None
    /\ tray_burst' = [tray_burst EXCEPT
                        !.since = IF @ < DebounceSeconds THEN @ + 1 ELSE @]
    /\ UNCHANGED <<battery_percent, error, _was_charging, _notified_thresholds,
                   _retry_count, last_try, settle_retries, window_attempt>>
    /\ UNCHANGED trayOthers

\* the debounce timer expires: _on_device_settled. Timers that expire together
\* fire in the order they were started; the retry timer is then the older one.
OnDeviceSettled ==
    /\ TimerDue(_debounce_timer)
    /\ ~TimerDue(_retry_timer)
    /\ _debounce_timer' = None
    /\ \E o \in TrayReads :
          /\ SetTrayFields(_try_update([TrayFields EXCEPT !._retry_count = 0], o))
          /\ last_try' = IF o.kind = "ok" THEN "ok" ELSE "fail"
    /\ settle_retries' = 0
    /\ tray_burst' = [tray_burst EXCEPT
                        !.settled = IF @ < 2 THEN @ + 1 ELSE @,
                        !.early = @ \/ tray_burst.since < DebounceSeconds]
    /\ UNCHANGED window_attempt
    /\ UNCHANGED trayOthers

\* the retry timer expires: _retry_update
RetryUpdate ==
    /\ TimerDue(_retry_timer)
    /\ \E o \in TrayReads :
          /\ SetTrayFields(_try_update([TrayFields EXCEPT !._retry_timer = None], o))
          /\ last_try' = IF o.kind = "ok" THEN "ok" ELSE "fail"
    /\ settle_retries' = IF settle_retries <= max_retries
                         THEN settle_retries + 1 ELSE settle_retries
    /\ window_attempt' = (window_attempt \/ IsSome(_debounce_timer))
    /\ UNCHANGED <<_debounce_timer, tray_burst>>
    /\ UNCHANGED trayOthers

\* update_battery from the poll timer, "Refresh Now" or the initial read
UpdateBattery ==
    /\ NoTimerDue
    /\ \E o \in TrayReads : SetTrayFields(update_battery(TrayFields, o))
    /\ UNCHANGED <<_debounce_timer, last_try, settle_retries, window_attempt,
                   tray_burst>>
    /\ UNCHANGED trayOthers

InitTray == MgrIdle /\ KeyIdle /\ NotifIdle /\ RestIdle

NextTray ==
    \/ OnDeviceEvent
    \/ TrayTick
    \/ OnDeviceSettled
    \/ RetryUpdate
    \/ UpdateBattery

SpecTray == InitTray /\ [][NextTray]_vars

(***************************************************************************)
(* HID command exchange: HyperXPulsefireDriver._send (driver.py) and       *)
(* send_command of the plasmoid backend (backend.py)                       *)
(***************************************************************************)
\* command bytes: CMD_HW_INFO, CMD_HEARTBEAT, CMD_LED_QUERY, CMD_DPI_QUERY
QueryCommands == {80, 81, 82, 83}

\* what one write followed by one read does: the device answers, the read
\* times out with nothing, the write raises, the read raises
ExchangeOutcomes == {"response", "empty", "write_raises", "read_raises"}

\* send_command(dev, data, retries=3)
retries == 3

\* HyperXPulsefireDriver._send(packet, expect_response)
_send(dev_open, cmd, expect_response, outcome) ==
    IF ~dev_open THEN [writes |-> 0, response |-> None]
    ELSE IF outcome = "write_raises" THEN [writes |-> 1, response |-> None]
    ELSE IF ~expect_response THEN [writes |-> 1, response |-> Some(0)]
    ELSE IF outcome = "response" THEN [writes |-> 1, response |-> Some(cmd)]
    ELSE [writes |-> 1, response |-> None]

\* send_command: for attempt in range(retries): write, read, return the
\* response if there is one
RECURSIVE send_command_loop(_, _, _, _)
send_command_loop(cmd, outcomes, attempt, writes) ==
    IF attempt >= retries THEN [writes |-> writes, response |-> None]
    ELSE IF outcomes[attempt + 1] = "response"
    THEN [writes |-> writes + 1, response |-> Some(cmd)]
    ELSE send_command_loop(cmd, outcomes, attempt + 1, writes + 1)

send_command(cmd, outcomes) == send_command_loop(cmd, outcomes, 0, 0)

sendOthers == <<mgrVars, keyVars, notifVars, hotVars, trayVars, codecVars,
             uploadVars, extVars>>

\* one command of the driver (get_battery, set_dpi_profile, ...)
DriverSend ==
    /\ \E dev_open \in BOOLEAN, cmd \in QueryCommands, expect_response \in BOOLEAN,
          outcome \in ExchangeOutcomes :
          LET r == _send(dev_open, cmd, expect_response, outcome)
          IN  hid_call' = Some([via |-> "driver", cmd |-> cmd,
                                outcomes |-> <<outcome>>, writes |-> r.writes,
                                response |-> r.response])
    /\ UNCHANGED sendOthers

\* one command of the plasmoid backend (get_battery_status, get_hw_info, ...)
BackendSendCommand ==
    /\ \E cmd \in QueryCommands, outcomes \in [1..retries -> ExchangeOutcomes] :
          LET r == send_command(cmd, outcomes)
          IN  hid_call' = Some([via |-> "backend", cmd |-> cmd,
                                outcomes |-> outcomes, writes |-> r.writes,
                                response |-> r.response])
    /\ UNCHANGED sendOthers

InitSend == MgrIdle /\ KeyIdle /\ NotifIdle /\ RestIdle

NextSend == DriverSend \/ BackendSendCommand

SpecSend == InitSend /\ [][NextSend]_vars

(***************************************************************************)
(* Packet encoding (hyperx_battery/protocol.py)                            *)
(***************************************************************************)
PACKET_SIZE == 64

CMD_HW_INFO == 80
CMD_HEARTBEAT == 81
CMD_LED_QUERY == 82
CMD_DPI_QUERY == 83
CMD_LED_SET == 210
CMD_DPI_SET == 211
CMD_BUTTON_SET == 212
CMD_MACRO_DATA == 214
CMD_SAVE == 222

\* ButtonType.MACRO
ButtonType_MACRO == 4

\* max(lo, min(hi, x))
Clamp(lo, hi, x) == IF x < lo THEN lo ELSE IF x > hi THEN hi ELSE x

\* x & 0xFF and x >> 8 of a Python int
LowByte(x) == x % 256
ShiftRight8(x) == x \div 256

\* the data written from index 0, without the report id in front
_make_packet_unshifted(data) ==
    LET packet == [k \in 1..PACKET_SIZE |->
                     IF k <= Len(data) THEN data[k] ELSE 0]
        invalid == \E k \in 1..PACKET_SIZE : packet[k] \notin 0..255
    IN  [raised |-> invalid, bytes |-> IF invalid THEN <<>> ELSE packet]

\* _make_packet(data): packet[0] is the report id 0x00, data[i] goes to
\* packet[i + 1] while i + 1 < PACKET_SIZE; bytes(packet) raises ValueError
\* when an element is outside 0..255
_make_packet(data) ==
    LET packet == [k \in 1..PACKET_SIZE |->
                     IF k = 1 THEN 0
                     ELSE IF k - 1 <= Len(data) THEN data[k - 1]
                     ELSE 0]
        invalid == \E k \in 1..PACKET_SIZE : packet[k] \notin 0..255
    IN  [raised |-> invalid, bytes |-> IF invalid THEN <<>> ELSE packet]

build_heartbeat_packet == _make_packet(<<CMD_HEARTBEAT>>)
build_hw_info_packet == _make_packet(<<CMD_HW_INFO>>)
build_led_query_packet == _make_packet(<<CMD_LED_QUERY>>)
build_dpi_query_packet == _make_packet(<<CMD_DPI_QUERY>>)

\* build_led_packet(target, effect, red, green, blue, brightness, speed,
\* red2, green2, blue2); a secondary colour of None defaults to the primary
build_led_packet(target, effect, red, green, blue, brightness, speed, red2, green2, blue2) ==
    _make_packet(<<CMD_LED_SET, target, effect, 8, red, green, blue,
                   IF IsSome(red2) THEN Val(red2) ELSE red,
                   IF IsSome(green2) THEN Val(green2) ELSE green,
                   IF IsSome(blue2) THEN Val(blue2) ELSE blue,
                   Clamp(0, 100, brightness), Clamp(0, 100, speed)>>)

build_dpi_select_packet(profile) ==
    _make_packet(<<CMD_DPI_SET, 0, Clamp(0, 4, profile), 0>>)

\* the mask written as it came, not reversed
reversed_mask_unreversed(enable_mask) == enable_mask % 32

\* reversed_mask: bit i of enable_mask, i in range(5), sets bit 4 - i
reversed_mask(enable_mask) ==
    LET bit(i) == (enable_mask \div (2 ^ i)) % 2
    IN  bit(0) * 16 + bit(1) * 8 + bit(2) * 4 + bit(3) * 2 + bit(4)

build_dpi_enable_packet(enable_mask) ==
    _make_packet(<<CMD_DPI_SET, 1, 0, 1, reversed_mask(enable_mask)>>)

\* the DPI value packet without the high byte of dpi / 50
build_dpi_value_packet_low_only(profile, dpi) ==
    LET dpi_scaled == ((Clamp(50, 16000, dpi) \div 50) * 50) \div 50
    IN  _make_packet(<<CMD_DPI_SET, 2, Clamp(0, 4, profile), 2,
                       LowByte(dpi_scaled), 0>>)

build_dpi_value_packet(profile, dpi) ==
    LET clamped == Clamp(50, 16000, dpi)
        rounded == (clamped \div 50) * 50
        dpi_scaled == rounded \div 50
        dpi_low == LowByte(dpi_scaled)
        dpi_high == LowByte(ShiftRight8(dpi_scaled))
    IN  _make_packet(<<CMD_DPI_SET, 2, Clamp(0, 4, profile), 2, dpi_low,
                       dpi_high>>)

build_dpi_color_packet(profile, red, green, blue) ==
    _make_packet(<<CMD_DPI_SET, 3, Clamp(0, 4, profile), 3, red, green, blue>>)

build_button_packet(button, button_type, code) ==
    LET extra_byte == IF button_type = ButtonType_MACRO THEN 0 ELSE 4
    IN  _make_packet(<<CMD_BUTTON_SET, Clamp(0, 5, button), button_type, 2,
                       code, extra_byte>>)

build_save_packet == _make_packet(<<CMD_SAVE, 255>>)

\* MacroEvent(event_type, code)
MacroEvent(event_type, code) == [event_type |-> event_type, code |-> code]

\* the 10-byte row of one event; an event of no known type gets no row
event_row(event) ==
    IF event.event_type = "delay"
    THEN LET delay_val == event.code \div 2
         IN  <<<<LowByte(delay_val), LowByte(ShiftRight8(delay_val)),
                 0, 0, 0, 0, 0, 0, 0, 0>>>>
    ELSE IF event.event_type \in {"key_down", "key_up"}
    THEN <<<<26, event.code, IF event.event_type = "key_down" THEN 1 ELSE 2,
             0, 0, 0, 0, 0, 0, 0>>>>
    ELSE IF event.event_type \in {"mouse_down", "mouse_up"}
    THEN <<<<37, event.code, IF event.event_type = "mouse_down" THEN 1 ELSE 2,
             0, 0, 0, 0, 0, 0, 0>>>>
    ELSE <<>>

\* event_rows: for event in events: ... event_rows.append(row)
RECURSIVE event_rows(_)
event_rows(events) ==
    IF events = <<>> THEN <<>>
    ELSE event_row(Head(events)) \o event_rows(Tail(events))

\* data.extend(row) for row in chunk
RECURSIVE Flatten(_)
Flatten(rows) ==
    IF rows = <<>> THEN <<>> ELSE Head(rows) \o Flatten(Tail(rows))

\* the count field that is the number of rows in every packet
macro_count_plain(chunk, is_last) == Len(chunk)

\* len(chunk) if is_last else 0x86
macro_count(chunk, is_last) == IF is_last THEN Len(chunk) ELSE 134

\* for i in range(0, len(event_rows), 6): the packets from row i on
RECURSIVE macro_chunks(_, _, _)
macro_chunks(button, rows, i) ==
    IF i >= Len(rows) THEN <<>>
    ELSE LET chunk == SubSeq(rows, i + 1, IF i + 6 < Len(rows) THEN i + 6
                                          ELSE Len(rows))
             is_last == (i + 6) >= Len(rows)
             data == <<CMD_MACRO_DATA, button, i \div 6,
                       macro_count(chunk, is_last)>> \o Flatten(chunk)
         IN  <<_make_packet(data)>> \o macro_chunks(button, rows, i + 6)

\* build_macro_packets(button, events): the list of packets, or the
\* ValueError of the first packet that cannot be built
build_macro_packets(button, events) ==
    LET chunks == macro_chunks(button, event_rows(events), 0)
        made == IF chunks = <<>>
                THEN <<_make_packet(<<CMD_MACRO_DATA, button, 0, 0>>)>>
                ELSE chunks
        invalid == \E k \in 1..Len(made) : made[k].raised
    IN  [raised |-> invalid,
         packets |-> IF invalid THEN <<>>
                     ELSE [k \in 1..Len(made) |-> made[k].bytes]]

(***************************************************************************)
(* Response decoding (hyperx_battery/protocol.py)                          *)
(***************************************************************************)
\* response[k], k counted from 0
Byte(response, k) == response[k + 1]

\* response[k] | (response[k + 1] << 8)
LittleEndian16(response, k) == Byte(response, k) + Byte(response, k + 1) * 256

\* name_bytes = response[12:44], cut at the first 0, decoded as ASCII with
\* errors='ignore': the bytes below 128 before the first 0
device_name_of(response) ==
    LET last == IF Len(response) < 44 THEN Len(response) ELSE 44
        name_bytes == SubSeq(response, 13, last)
        nulls == {k \in 1..Len(name_bytes) : name_bytes[k] = 0}
        null_idx == IF nulls = {} THEN Len(name_bytes) + 1
                    ELSE CHOOSE k \in nulls : \A j \in nulls : k <= j
        IsAscii(b) == b < 128
    IN  SelectSeq(SubSeq(name_bytes, 1, null_idx - 1), IsAscii)

parse_hw_info(response) ==
    IF Len(response) < 32 \/ Byte(response, 0) # CMD_HW_INFO THEN None
    ELSE Some([firmware_version |-> <<Byte(response, 3), 0, 0>>,
               device_name |-> device_name_of(response),
               vendor_id |-> LittleEndian16(response, 6),
               product_id |-> LittleEndian16(response, 4)])

\* the heartbeat decoder without the test of byte 0
parse_battery_any_opcode(response) ==
    IF Len(response) < 6 THEN None
    ELSE Some([percent |-> Byte(response, 4),
               is_charging |-> Byte(response, 5) = 1])

parse_battery(response) ==
    IF Len(response) < 6 \/ Byte(response, 0) # CMD_HEARTBEAT THEN None
    ELSE Some([percent |-> Byte(response, 4),
               is_charging |-> Byte(response, 5) = 1])

\* target=LedTarget.BOTH (0x20), effect=LedEffect.STATIC (0x00), speed=0
parse_led_settings(response) ==
    IF Len(response) < 21 \/ Byte(response, 0) # CMD_LED_QUERY THEN None
    ELSE Some([target |-> 32, effect |-> 0,
               red |-> Byte(response, 18), green |-> Byte(response, 19),
               blue |-> Byte(response, 20), brightness |-> Byte(response, 17),
               speed |-> 0])

\* colors: for i in range(5), offset = 22 + i * 3, kept if offset + 2 < len
RECURSIVE dpi_colors(_, _)
dpi_colors(response, i) ==
    IF i >= 5 THEN <<>>
    ELSE LET offset == 22 + i * 3
         IN  (IF offset + 2 < Len(response)
              THEN <<<<Byte(response, offset), Byte(response, offset + 1),
                       Byte(response, offset + 2)>>>>
              ELSE <<>>) \o dpi_colors(response, i + 1)

parse_dpi_settings(response) ==
    IF Len(response) < 30 \/ Byte(response, 0) # CMD_DPI_QUERY THEN None
    ELSE Some([active_profile |-> Byte(response, 5),
               dpi_values |-> [i \in 1..5 |->
                                 LittleEndian16(response, 8 + 2 * i) * 50],
               colors |-> dpi_colors(response, 0)])

(***************************************************************************)
(* Encoder and decoder calls                                               *)
(***************************************************************************)
\* arguments the encoders do not clamp: inside and just outside a byte
ByteArgs == {-1, 0, 255, 256}

\* LedTarget.LOGO, LedTarget.BOTH; LedEffect.STATIC, LedEffect.BREATHING
LedTargets == {0, 32}
LedEffects == {0, 32}

\* profile and button indices inside and outside their ranges
ProfileArgs == {-1, 0, 2, 4, 5}
ButtonArgs == {-1, 0, 5, 6, 256}

\* ButtonType members: DISABLED, KEYBOARD, MACRO, DPI
ButtonTypes == {0, 2, 4, 7}

\* dpi arguments: every step of the range, and values off it and outside it
DpiStep == 50
DpiMin == 50
DpiMax == 16000
DpiArgs == {d \in DpiMin..DpiMax : d % DpiStep = 0}
             \cup {-50, 0, 49, 51, 873, 15999, 16001, 16050, 20000}

\* enable masks: the 32 masks of five bits, and masks with higher bits set
MaskArgs == 0..31 \cup {32, 33, 63, 255, 256}

\* events the macro editor produces, repeated in this order
EventPool ==
    <<MacroEvent("key_down", 4), MacroEvent("delay", 7),
      MacroEvent("key_up", 4), MacroEvent("mouse_down", 1),
      MacroEvent("delay", 600), MacroEvent("mouse_up", 1)>>

\* longest event list uploaded
MaxEvents == 13

\* the list of n events that starts at place `from` of the pool; with
\* `code`, its first event is a key press of that code
EventList(n, from, code) ==
    [k \in 1..n |->
       IF k = 1 /\ IsSome(code) THEN MacroEvent("key_down", Val(code))
       ELSE EventPool[((from + k - 2) % Len(EventPool)) + 1]]

\* responses: a length, byte 0, bytes 4 and 5, and a fill for the rest
ResponseLengths == {0, 5, 6, 20, 21, 29, 30, 31, 32, 64}
ResponseOpcodes == {0, CMD_HW_INFO, CMD_HEARTBEAT, CMD_LED_QUERY, CMD_DPI_QUERY}
ResponseByte4 == {0, 58, 73, 100, 101, 255}
ResponseByte5 == {0, 1, 2}
ResponseFills == {0, 7}

Response(len, opcode, b4, b5, fill) ==
    [k \in 1..len |->
       IF k = 1 THEN opcode
       ELSE IF k = 5 THEN b4
       ELSE IF k = 6 THEN b5
       ELSE (fill * k) % 256]

Responses ==
    {Response(len, opcode, b4, b5, fill) :
        len \in ResponseLengths, opcode \in ResponseOpcodes,
        b4 \in ResponseByte4, b5 \in ResponseByte5, fill \in ResponseFills}

codecOthers == <<mgrVars, keyVars, notifVars, hotVars, trayVars, sendVars,
                 uploadVars, extVars>>

\* the result of a builder of one packet, as a list of packets
Frames(r) ==
    [raised |-> r.raised, packets |-> IF r.raised THEN <<>> ELSE <<r.bytes>>]

\* the record of a call: one call at a time, on record with what it
\* returned until the caller is done with it
Called(op, args, out) == [op |-> op, args |-> args, out |-> out]

\* the caller drops the result
CodecReturn ==
    /\ codec.op # "none"
    /\ codec' = [op |-> "none", args |-> <<>>, out |-> <<>>]
    /\ UNCHANGED codecOthers

BuildHeartbeat ==
    /\ codec.op = "none"
    /\ codec' = Called("build_heartbeat_packet", <<>>,
                       Frames(build_heartbeat_packet))
    /\ UNCHANGED codecOthers

BuildHwInfo ==
    /\ codec.op = "none"
    /\ codec' = Called("build_hw_info_packet", <<>>,
                       Frames(build_hw_info_packet))
    /\ UNCHANGED codecOthers

BuildLedQuery ==
    /\ codec.op = "none"
    /\ codec' = Called("build_led_query_packet", <<>>,
                       Frames(build_led_query_packet))
    /\ UNCHANGED codecOthers

BuildDpiQuery ==
    /\ codec.op = "none"
    /\ codec' = Called("build_dpi_query_packet", <<>>,
                       Frames(build_dpi_query_packet))
    /\ UNCHANGED codecOthers

BuildLed ==
    /\ codec.op = "none"
    /\ \E target \in LedTargets, effect \in LedEffects,
          red \in ByteArgs, green \in ByteArgs, blue \in ByteArgs,
          brightness \in {-1, 50, 101}, speed \in {0, 101},
          red2 \in {None, Some(7)} :
           codec' = Called("build_led_packet",
                [target |-> target, effect |-> effect, red |-> red,
                 green |-> green, blue |-> blue, brightness |-> brightness,
                 speed |-> speed, red2 |-> red2],
                Frames(build_led_packet(target, effect, red, green, blue,
                                        brightness, speed, red2, None, None)))
    /\ UNCHANGED codecOthers

BuildDpiSelect ==
    /\ codec.op = "none"
    /\ \E profile \in ProfileArgs :
           codec' = Called("build_dpi_select_packet", [profile |-> profile],
                Frames(build_dpi_select_packet(profile)))
    /\ UNCHANGED codecOthers

BuildDpiEnable ==
    /\ codec.op = "none"
    /\ \E enable_mask \in MaskArgs :
           codec' = Called("build_dpi_enable_packet", [enable_mask |-> enable_mask],
                Frames(build_dpi_enable_packet(enable_mask)))
    /\ UNCHANGED codecOthers

BuildDpiValue ==
    /\ codec.op = "none"
    /\ \E profile \in ProfileArgs, dpi \in DpiArgs :
           codec' = Called("build_dpi_value_packet", [profile |-> profile, dpi |-> dpi],
                Frames(build_dpi_value_packet(profile, dpi)))
    /\ UNCHANGED codecOthers

BuildDpiColor ==
    /\ codec.op = "none"
    /\ \E profile \in ProfileArgs, red \in ByteArgs, green \in ByteArgs,
          blue \in ByteArgs :
           codec' = Called("build_dpi_color_packet",
                [profile |-> profile, red |-> red, green |-> green,
                 blue |-> blue],
                Frames(build_dpi_color_packet(profile, red, green, blue)))
    /\ UNCHANGED codecOthers

BuildButton ==
    /\ codec.op = "none"
    /\ \E button \in ButtonArgs, button_type \in ButtonTypes,
          code \in ByteArgs :
           codec' = Called("build_button_packet",
                [button |-> button, button_type |-> button_type, code |-> code],
                Frames(build_button_packet(button, button_type, code)))
    /\ UNCHANGED codecOthers

BuildMacro ==
    /\ codec.op = "none"
    /\ \E button \in ButtonArgs, n \in 0..MaxEvents,
          from \in 1..Len(EventPool), code \in {None, Some(255), Some(256)} :
           LET events == EventList(n, from, code)
           IN  codec' = Called("build_macro_packets",
                    [button |-> button, events |-> events],
                    build_macro_packets(button, events))
    /\ UNCHANGED codecOthers

BuildSave ==
    /\ codec.op = "none"
    /\ codec' = Called("build_save_packet", <<>>, Frames(build_save_packet))
    /\ UNCHANGED codecOthers

ParseHwInfo ==
    /\ codec.op = "none"
    /\ \E response \in Responses :
           codec' = Called("parse_hw_info", [response |-> response], parse_hw_info(response))
    /\ UNCHANGED codecOthers

ParseBattery ==
    /\ codec.op = "none"
    /\ \E response \in Responses :
           codec' = Called("parse_battery", [response |-> response], parse_battery(response))
    /\ UNCHANGED codecOthers

ParseLedSettings ==
    /\ codec.op = "none"
    /\ \E response \in Responses :
           codec' = Called("parse_led_settings", [response |-> response],
                parse_led_settings(response))
    /\ UNCHANGED codecOthers

ParseDpiSettings ==
    /\ codec.op = "none"
    /\ \E response \in Responses :
           codec' = Called("parse_dpi_settings", [response |-> response],
                parse_dpi_settings(response))
    /\ UNCHANGED codecOthers

InitCodec == MgrIdle /\ KeyIdle /\ NotifIdle /\ RestIdle

NextCodec ==
    \/ BuildHeartbeat \/ BuildHwInfo \/ BuildLedQuery \/ BuildDpiQuery
    \/ BuildLed \/ BuildDpiSelect \/ BuildDpiEnable \/ BuildDpiValue
    \/ BuildDpiColor \/ BuildButton \/ BuildMacro \/ BuildSave
    \/ ParseHwInfo \/ ParseBattery \/ ParseLedSettings \/ ParseDpiSettings
    \/ CodecReturn

SpecCodec == InitCodec /\ [][NextCodec]_vars

(***************************************************************************)
(* Macro upload: HyperXPulsefireDriver.upload_macro (driver.py) and        *)
(* HyperXDevice.upload_macro (device.py)                                   *)
(***************************************************************************)
\* the two implementations of upload_macro
UploadVia == {"driver", "device"}

\* buttons the macro editor offers: BUTTON_LEFT .. BUTTON_DPI
EditorButtons == {0, 5}

\* the loop that sends every packet whatever came back
upload_step_ignoring(response, i, n) ==
    IF i = n THEN "success" ELSE "running"

\* one round of `for packet in packets`: return False when _send gave None,
\* go on to the next packet otherwise, return True after the last one
upload_step(response, i, n) ==
    IF response = None THEN "failure"
    ELSE IF i = n THEN "success"
    ELSE "running"

uploadOthers == <<mgrVars, keyVars, notifVars, hotVars, trayVars, sendVars,
                  codecVars, extVars>>

\* upload_macro(button, events): packets = build_macro_packets(button, events)
UploadMacro ==
    /\ upload.result = "idle"
    /\ \E via \in UploadVia, dev_open \in BOOLEAN, button \in EditorButtons,
          n \in 0..MaxEvents :
          upload' = [via |-> via, dev_open |-> dev_open,
                     packets |-> build_macro_packets(
                                     button, EventList(n, 1, None)).packets,
                     log |-> <<>>, result |-> "running"]
    /\ UNCHANGED uploadOthers

\* the next round of the loop: self._send(packet), one write and one read
UploadSend ==
    /\ upload.result = "running"
    /\ \E outcome \in ExchangeOutcomes :
          LET i == Len(upload.log) + 1
              packet == upload.packets[i]
              r == _send(upload.dev_open, packet[2], TRUE, outcome)
          IN  upload' = [upload EXCEPT
                  !.log = Append(@, [seq |-> packet[4], writes |-> r.writes,
                                     response |-> r.response]),
                  !.result = upload_step(r.response, i, Len(upload.packets))]
    /\ UNCHANGED uploadOthers

\* upload_macro has returned True or False to its caller
UploadReturn ==
    /\ upload.result \in {"success", "failure"}
    /\ upload' = [via |-> "none", dev_open |-> FALSE, packets |-> <<>>,
                  log |-> <<>>, result |-> "idle"]
    /\ UNCHANGED uploadOthers

InitUpload == MgrIdle /\ KeyIdle /\ NotifIdle /\ RestIdle

NextUpload == UploadMacro \/ UploadSend \/ UploadReturn

SpecUpload == InitUpload /\ [][NextUpload]_vars

(***************************************************************************)
(* The proprietary battery read: HidDriverProvider.read_battery            *)
(* (hid_driver.py), HyperXPulsefireDriver.read_battery (driver.py)         *)
(***************************************************************************)
\* what the mouse can answer to a heartbeat: a full report with any byte 4
\* (on battery, and at 58 also charging), a report cut off after five bytes,
\* a report whose byte 0 is not the heartbeat opcode
HeartbeatResponses ==
    {Response(PACKET_SIZE, CMD_HEARTBEAT, b4, 0, 7) : b4 \in 0..255}
    \cup {Response(PACKET_SIZE, CMD_HEARTBEAT, 58, 1, 7),
          Response(5, CMD_HEARTBEAT, 58, 0, 7),
          Response(PACKET_SIZE, 0, 58, 0, 7)}

\* one read of the battery: whether the provider has an open driver for the
\* key, how the exchange goes, and what the mouse answers when it does
HeartbeatReads ==
    {<<TRUE, "response", response>> : response \in HeartbeatResponses}
    \cup {<<ready, outcome, Response(PACKET_SIZE, CMD_HEARTBEAT, 58, 0, 7)>> :
            ready \in BOOLEAN, outcome \in ExchangeOutcomes}

\* HyperXPulsefireDriver.read_battery: response = self._send(heartbeat);
\* if response: parsed = parse_battery(response); if parsed: BatteryReading(...)
driver_read_battery(exchange, response) ==
    IF exchange.response = None THEN None
    ELSE LET parsed == parse_battery(response)
         IN  IF IsSome(parsed)
             THEN Some(BatteryReading(Val(parsed).percent,
                                      Val(parsed).is_charging, "HID"))
             ELSE None

\* HidDriverProvider.read_battery: None without a driver for the key or when
\* the device cannot be opened, driver.read_battery() otherwise
hid_read_battery(ready, outcome, response) ==
    IF ~ready THEN None
    ELSE driver_read_battery(_send(TRUE, CMD_HEARTBEAT, TRUE, outcome),
                             response)

\* refresh_battery(stable_key) for the key of the mouse, owned by the HID
\* provider
HidRefreshBattery ==
    /\ pc = "idle"
    /\ ScenarioKey \in DOMAIN _devices
    /\ ScenarioKey \in DOMAIN _device_provider
    /\ poller_of(_device_provider, _providers, ScenarioKey) = "HID"
    /\ \E read \in HeartbeatReads :
          LET reading == hid_read_battery(read[1], read[2], read[3])
              o == IF IsSome(reading)
                   THEN [kind |-> "reading", reading |-> reading]
                   ELSE [kind |-> "none", reading |-> None]
              r == _devices[ScenarioKey]
              got == read_into(heap[r], o)
          IN  /\ heap' = [heap EXCEPT ![r] = got.device]
              /\ results' = IF o.kind = "reading"
                            THEN (ScenarioKey :> Val(o.reading)) ELSE EmptyMap
              /\ polled' = (ScenarioKey :> o.kind)
              /\ escaped' = got.escaped
    /\ pc' = "polled"
    /\ UNCHANGED <<_providers, _devices, _device_provider, di, seen_keys,
                   seen_providers, added, removed, scenario, old_keys, found,
                   delivered, held, held_value>>
    /\ UNCHANGED otherVarsOfMgr
    /\ ran_on' = "main"

\* the manager with the HID provider alone
NextHeartbeat ==
    \/ RegisterProvider("HID")
    \/ BeginDiscovery
    \/ DiscoverStep
    \/ ReturnDiscovery
    \/ EmitEvent
    \/ FinishDiscovery
    \/ HidRefreshBattery
    \/ FinishPoll

SpecHeartbeat == InitScenario /\ [][NextHeartbeat]_vars

(***************************************************************************)
(* HidDriverProvider (providers/hid_driver.py), HyperXPulsefireDriver.match *)
(***************************************************************************)
VENDOR_ID == 2385                \* 0x0951
PRODUCT_ID_WIRELESS == 5857      \* 0x16E1
PRODUCT_ID_WIRED == 5858         \* 0x16E2
USAGE_PAGE_WIRELESS == 65280     \* 0xFF00
USAGE_PAGE_WIRED == 65299        \* 0xFF13

\* HyperXPulsefireDriver.match
match(vendor_id, product_id, usage_page, interface_number) ==
    IF vendor_id # VENDOR_ID THEN FALSE
    ELSE IF product_id = PRODUCT_ID_WIRELESS
    THEN usage_page = USAGE_PAGE_WIRELESS \/ interface_number = 2
    ELSE IF product_id = PRODUCT_ID_WIRED
    THEN usage_page = USAGE_PAGE_WIRED \/ interface_number = 1
    ELSE FALSE

\* one dict of hid.enumerate()
HidInfo(vendor_id, product_id, usage_page, interface_number, path) ==
    [vendor_id |-> vendor_id, product_id |-> product_id,
     usage_page |-> usage_page, interface_number |-> interface_number,
     path |-> path, serial_number |-> None]

\* the HID interfaces of the environment: the dongle's vendor interface, its
\* keyboard interface, the wired mouse, an interface of the dongle matched by
\* its number alone, and a device of another vendor
HidPool ==
    {HidInfo(VENDOR_ID, PRODUCT_ID_WIRELESS, USAGE_PAGE_WIRELESS, 2, "/dev/hidraw1"),
     HidInfo(VENDOR_ID, PRODUCT_ID_WIRELESS, 1, 0, "/dev/hidraw0"),
     HidInfo(VENDOR_ID, PRODUCT_ID_WIRED, USAGE_PAGE_WIRED, 1, "/dev/hidraw2"),
     HidInfo(VENDOR_ID, PRODUCT_ID_WIRELESS, 1, 2, "/dev/hidraw3"),
     HidInfo(1133, PRODUCT_ID_WIRELESS, USAGE_PAGE_WIRELESS, 2, "/dev/hidraw4")}

\* longest list hid.enumerate() returns
MaxEnumerated == 3

\* outcomes of hid.enumerate() over a pool of interfaces: it raises, or
\* returns a list of interfaces
EnumerationsOf(pool) ==
    {[kind |-> "fails", all_hid |-> <<>>]} \cup
    {[kind |-> "list", all_hid |-> l] :
        l \in {x \in ListsUpTo(pool, MaxEnumerated) :
                 \A i, j \in 1..Len(x) : i # j => x[i] # x[j]}}

Enumerations == EnumerationsOf(HidPool)

\* DeviceId(provider=HID_PROPRIETARY, path=..., vendor_id=vid, ...)
HidDeviceId(hid_info) ==
    [provider |-> "HID_PROPRIETARY", path |-> hid_info.path,
     vendor_id |-> Some(hid_info.vendor_id),
     product_id |-> Some(hid_info.product_id),
     serial |-> hid_info.serial_number]

\* driver_cls(): an object distinct from every driver the provider holds
NewDriver(active) ==
    LET used == {active[k].inst : k \in DOMAIN active}
        free == (1..(Cardinality(used) + 1)) \ used
    IN  [inst |-> CHOOSE n \in free : \A m \in free : n <= m, open_path |-> None]

\* a pass that stores the driver it has just built, held one or not
discover_entry_replacing(st, hid_info) ==
    IF ~match(hid_info.vendor_id, hid_info.product_id, hid_info.usage_page,
              hid_info.interface_number)
    THEN st
    ELSE LET device_id == HidDeviceId(hid_info)
             key == stable_key(device_id)
         IN  IF key \in st.seen_keys THEN st
             ELSE [seen_keys |-> st.seen_keys \cup {key},
                   _device_infos |-> (key :> hid_info) @@ st._device_infos,
                   _active |-> (key :> NewDriver(st._active)) @@ st._active,
                   results |-> Append(st.results, HidDeviceInfo(device_id))]

\* discover, the body of `for hid_info in all_hid` with the one registered
\* driver class: no match, a key seen already in this pass, or a DeviceInfo;
\* the raw dict is stored, the new driver only when the key has none
discover_entry(st, hid_info) ==
    IF ~match(hid_info.vendor_id, hid_info.product_id, hid_info.usage_page,
              hid_info.interface_number)
    THEN st
    ELSE LET device_id == HidDeviceId(hid_info)
             key == stable_key(device_id)
         IN  IF key \in st.seen_keys THEN st
             ELSE [seen_keys |-> st.seen_keys \cup {key},
                   _device_infos |-> (key :> hid_info) @@ st._device_infos,
                   _active |-> IF key \in DOMAIN st._active THEN st._active
                               ELSE (key :> NewDriver(st._active)) @@ st._active,
                   results |-> Append(st.results, HidDeviceInfo(device_id))]

RECURSIVE discover_entries(_, _)
discover_entries(st, all_hid) ==
    IF all_hid = <<>> THEN st
    ELSE discover_entries(discover_entry(st, Head(all_hid)), Tail(all_hid))

\* gone = set(self._active.keys()) - seen_keys: pop the driver, close it when
\* it is open, pop the raw dict
drop_gone(st) ==
    LET gone == DOMAIN st._active \ st.seen_keys
    IN  [_active |-> [k \in DOMAIN st._active \ gone |-> st._active[k]],
         _device_infos |->
             [k \in DOMAIN st._device_infos \ gone |-> st._device_infos[k]],
         closed |-> {st._active[k].inst :
                       k \in {g \in gone : IsSome(st._active[g].open_path)}}]

\* HidDriverProvider.discover: [] when hid.enumerate() raises, nothing
\* touched; otherwise the DeviceInfo list and the maps after the clean-up
discover(active, device_infos, enumeration) ==
    IF enumeration.kind = "fails"
    THEN [_active |-> active, _device_infos |-> device_infos,
          results |-> <<>>, enumerated |-> FALSE, closed |-> {}]
    ELSE LET st == discover_entries(
                       [seen_keys |-> {}, _device_infos |-> device_infos,
                        _active |-> active, results |-> <<>>],
                       enumeration.all_hid)
             kept == drop_gone(st)
         IN  [_active |-> kept._active, _device_infos |-> kept._device_infos,
              results |-> st.results, enumerated |-> TRUE,
              closed |-> kept.closed]

\* the opening both read_battery and get_driver_for begin with: the driver
\* of the key, opened on the stored path when it is not open; `opened` is
\* whether hid.device().open_path succeeds
open_driver(active, device_infos, key, opened) ==
    IF key \notin DOMAIN active \/ key \notin DOMAIN device_infos THEN active
    ELSE IF IsSome(active[key].open_path) \/ ~opened THEN active
    ELSE [active EXCEPT ![key].open_path = Some(device_infos[key].path)]

\* get_driver_for(device_id): the driver held for the key, opened if it can
\* be, or None
get_driver_for(active, device_infos, key, opened) ==
    IF key \notin DOMAIN active THEN None
    ELSE Some(open_driver(active, device_infos, key, opened)[key])

hidOthers == <<mgrVars, keyVars, notifVars, hotVars, trayVars, sendVars,
               codecVars, uploadVars, event_log, mgr_stopped, watch>>

\* what a step of the manager and of the HID provider together leaves alone
hidOthersOfMgr == <<keyVars, notifVars, hotVars, trayVars, sendVars, codecVars,
                    uploadVars, event_log, mgr_stopped, watch>>

\* the keys of a list of DeviceInfo
KeysOf(devices) ==
    {stable_key(devices[i].device_id) : i \in 1..Len(devices)}

\* discover()
HidDiscover ==
    /\ \E enumeration \in Enumerations :
          LET out == discover(hid._active, hid._device_infos, enumeration)
          IN  hid' = [_active |-> out._active,
                      _device_infos |-> out._device_infos,
                      call |-> "discover", arg |-> enumeration.all_hid,
                      result |-> [enumerated |-> out.enumerated,
                                  keys |-> KeysOf(out.results)],
                      before |-> hid._active, closed |-> out.closed]
    /\ UNCHANGED hidOthers

\* get_driver_for(device_id) or read_battery(device_id) of a device
HidOpen(key) ==
    /\ \E opened \in BOOLEAN :
          hid' = [hid EXCEPT
                    !._active = open_driver(hid._active, hid._device_infos,
                                            key, opened),
                    !.call = "get_driver_for", !.arg = key,
                    !.result = get_driver_for(hid._active, hid._device_infos,
                                              key, opened),
                    !.before = hid._active, !.closed = {}]
    /\ UNCHANGED hidOthers

\* close(): every open driver closed, both maps cleared
HidClose ==
    /\ hid' = [hid EXCEPT
                 !._active = EmptyMap, !._device_infos = EmptyMap,
                 !.call = "close", !.arg = <<>>, !.result = <<>>,
                 !.before = hid._active,
                 !.closed = {hid._active[k].inst :
                               k \in {g \in DOMAIN hid._active :
                                        IsSome(hid._active[g].open_path)}}]
    /\ UNCHANGED hidOthers

InitHid == MgrIdle /\ KeyIdle /\ NotifIdle /\ RestIdle

NextHid ==
    \/ HidDiscover
    \/ \E key \in AllKeys : HidOpen(key)
    \/ HidClose

\* the HID provider under every enumeration
SpecHid == InitHid /\ [][NextHid]_vars

(***************************************************************************)
(* get_driver (manager.py 42-53) with the HID provider behind it           *)
(***************************************************************************)
\* hasattr(provider, 'get_driver_for'): HidDriverProvider alone defines it
has_get_driver_for(p) == p = "HID"

\* a manager that asks the HID provider whoever owns the key
get_driver_of_any_owner(owners, devices, h, active, device_infos, key, opened) ==
    IF key \in DOMAIN owners /\ key \in DOMAIN devices
    THEN get_driver_for(active, device_infos,
                        stable_key(h[devices[key]].device_id), opened)
    ELSE None

\* get_driver(stable_key): provider = self._device_provider.get(key); with a
\* provider that has get_driver_for and a tracked record,
\* provider.get_driver_for(device.device_id); None otherwise
get_driver(owners, devices, h, active, device_infos, key, opened) ==
    IF key \in DOMAIN owners /\ has_get_driver_for(owners[key])
       /\ key \in DOMAIN devices
    THEN get_driver_for(active, device_infos,
                        stable_key(h[devices[key]].device_id), opened)
    ELSE None

\* the interfaces of the two mice: the dongle's vendor interface and its
\* keyboard interface, and the wired mouse
MouseInterfaces ==
    {i \in HidPool : i.path \in {"/dev/hidraw0", "/dev/hidraw1", "/dev/hidraw2"}}

\* run_discovery, the iteration of a provider other than the HID provider
OtherDiscoverStep ==
    /\ pc = "discover"
    /\ di <= Len(_providers)
    /\ _providers[di] # "HID"
    /\ \E o \in DiscoverOutcomes(_providers[di]) : DiscoverWith(o)
    /\ UNCHANGED otherVarsOfMgr

\* run_discovery, the iteration of the HID provider: its discover() runs on
\* what hid.enumerate() gives and keeps the provider's drivers up to date
HidDiscoverStep ==
    /\ pc = "discover"
    /\ di <= Len(_providers)
    /\ _providers[di] = "HID"
    /\ \E out \in {discover(hid._active, hid._device_infos, enumeration) :
                       enumeration \in EnumerationsOf(MouseInterfaces)} :
          /\ DiscoverWith([kind |-> "list", devices |-> out.results])
          /\ hid' = [hid EXCEPT !._active = out._active,
                                !._device_infos = out._device_infos]
    /\ UNCHANGED hidOthersOfMgr

\* a consumer calls get_driver(stable_key)
GetDriver(key) ==
    /\ pc = "idle"
    /\ pc' = "driver"
    /\ \E opened \in BOOLEAN :
          LET driver == get_driver(_device_provider, _devices, heap,
                                   hid._active, hid._device_infos, key, opened)
          IN  hid' = [hid EXCEPT
                        !._active = IF IsSome(driver)
                                    THEN open_driver(hid._active,
                                             hid._device_infos, key, opened)
                                    ELSE @,
                        !.call = "get_driver", !.arg = key,
                        !.result = driver]
    /\ UNCHANGED <<_providers, _devices, _device_provider, heap, di, seen_keys,
                   seen_providers, added, removed, escaped, scenario, old_keys,
                   found, results, polled, delivered, held, held_value>>
    /\ UNCHANGED hidOthersOfMgr
    /\ ran_on' = "main"

\* get_driver has returned and the consumer is done with the driver
ReturnDriver ==
    /\ pc = "driver"
    /\ pc' = "idle"
    /\ hid' = [hid EXCEPT !.call = "none", !.arg = <<>>, !.result = <<>>]
    /\ UNCHANGED <<_providers, _devices, _device_provider, heap, di, seen_keys,
                   seen_providers, added, removed, escaped, scenario, old_keys,
                   found, results, polled, delivered, held, held_value>>
    /\ UNCHANGED hidOthersOfMgr
    /\ ran_on' = "main"

\* the device manager with the three providers, the HID provider with its
\* drivers, and a consumer of get_driver
NextDriver ==
    \/ \E p \in ProviderNames : RegisterProvider(p)
    \/ BeginDiscovery
    \/ OtherDiscoverStep
    \/ HidDiscoverStep
    \/ ReturnDiscovery
    \/ EmitEvent
    \/ FinishDiscovery
    \/ \E key \in AllKeys : GetDriver(key)
    \/ ReturnDriver

SpecDriver == Init /\ [][NextDriver]_vars

(***************************************************************************)
(* HidDriverProvider.start_watching / stop_watching (hid_driver.py 164-188) *)
(***************************************************************************)
\* watcher threads started over the life of the provider
MaxWatchers == 2

watchOthers == <<mgrVars, keyVars, notifVars, hotVars, trayVars, sendVars,
                 codecVars, uploadVars, event_log, mgr_stopped, hid>>

\* start_watching(on_change): self._watch_callback = on_change;
\* self._watching = True; a daemon thread is started on _watch. Called from
\* the event loop, the first time or after a stop_watching that returned.
StartWatching ==
    /\ watch.stop_pc \in {"none", "returned"}
    /\ watch.stop_pc = "none" => watch.threads = <<>>
    /\ Len(watch.threads) < MaxWatchers
    /\ watch' = [watch EXCEPT
                   !._watch_callback = Some("on_change"),
                   !._watching = TRUE,
                   !.threads = Append(@, [pc |-> "poll", loaded |-> None]),
                   !.stop_pc = "none"]
    /\ UNCHANGED watchOthers

\* stop_watching, first statement: self._watching = False
StopWatchingFlag ==
    /\ watch.stop_pc = "none"
    /\ watch.threads # <<>>
    /\ watch' = [watch EXCEPT !._watching = FALSE, !.stop_pc = "flag"]
    /\ UNCHANGED watchOthers

\* stop_watching, second statement: self._watch_callback = None; it returns
StopWatchingClear ==
    /\ watch.stop_pc = "flag"
    /\ watch' = [watch EXCEPT !._watch_callback = None, !.stop_pc = "returned"]
    /\ UNCHANGED watchOthers

\* _watch: monitor.poll returns a udev event
WatcherPoll(t) ==
    /\ t \in 1..Len(watch.threads)
    /\ watch.threads[t].pc = "poll"
    /\ watch' = [watch EXCEPT !.threads[t].pc = "check_watching"]
    /\ UNCHANGED watchOthers

\* _watch: if not self._watching: break
WatcherCheckWatching(t) ==
    /\ t \in 1..Len(watch.threads)
    /\ watch.threads[t].pc = "check_watching"
    /\ watch' = [watch EXCEPT
                   !.threads[t].pc = IF watch._watching THEN "check_callback"
                                     ELSE "exited"]
    /\ UNCHANGED watchOthers

\* _watch: if self._watch_callback: (the attribute is read and tested)
WatcherCheckCallback(t) ==
    /\ t \in 1..Len(watch.threads)
    /\ watch.threads[t].pc = "check_callback"
    /\ watch' = [watch EXCEPT
                   !.threads[t].pc = IF IsSome(watch._watch_callback)
                                     THEN "load" ELSE "poll"]
    /\ UNCHANGED watchOthers

\* _watch: self._watch_callback() reads the attribute a second time
WatcherLoad(t) ==
    /\ t \in 1..Len(watch.threads)
    /\ watch.threads[t].pc = "load"
    /\ watch' = [watch EXCEPT !.threads[t].pc = "call",
                              !.threads[t].loaded = watch._watch_callback]
    /\ UNCHANGED watchOthers

\* what the call of the loaded object does: None is not callable (TypeError,
\* the thread ends); on_change runs otherwise, and the loop goes on
call_loaded(w, t) ==
    IF w.threads[t].loaded = None
    THEN [w EXCEPT !.threads[t].pc = "exited", !.called_none = TRUE]
    ELSE [w EXCEPT !.threads[t].pc = "poll", !.threads[t].loaded = None,
                   !.late_call = @ \/ w.stop_pc = "returned"]

\* _watch: the call itself
WatcherCall(t) ==
    /\ t \in 1..Len(watch.threads)
    /\ watch.threads[t].pc = "call"
    /\ watch' = call_loaded(watch, t)
    /\ UNCHANGED watchOthers

InitWatch == MgrIdle /\ KeyIdle /\ NotifIdle /\ RestIdle

NextWatch ==
    \/ StartWatching
    \/ StopWatchingFlag
    \/ StopWatchingClear
    \/ \E t \in 1..MaxWatchers : WatcherPoll(t)
    \/ \E t \in 1..MaxWatchers : WatcherCheckWatching(t)
    \/ \E t \in 1..MaxWatchers : WatcherCheckCallback(t)
    \/ \E t \in 1..MaxWatchers : WatcherLoad(t)
    \/ \E t \in 1..MaxWatchers : WatcherCall(t)

\* the HID provider's watcher threads and the event loop that starts and
\* stops watching, in every interleaving of their statements
SpecWatch == InitWatch /\ [][NextWatch]_vars

(***************************************************************************)
(* Properties                                                              *)
(***************************************************************************)
\* the record tracked under a key
Record(key) == heap[_devices[key]]

\* the providers whose discover() reported the key in the current pass
Reporters(key) ==
    {p \in DOMAIN found : found[p].kind = "list" /\ key \in found[p].keys}

\* the stable keys reported in the current pass
NewKeys == UNION {found[p].keys : p \in DOMAIN found}

\* C1: with the default notification settings no reading makes
\* _check_notifications raise
C1_NeverRaises == (config = DefaultNotifications) => ~raised

\* C2: when run_discovery has returned, every tracked key belongs to the
\* reporter of lowest priority number and its record is a candidate of that
\* provider for that key (every field comes from that provider)
C2_PriorityArbitration ==
    pc = "returned" =>
        \A key \in DOMAIN _devices :
            /\ key \in DOMAIN _device_provider
            /\ _device_provider[key] \in Reporters(key)
            /\ \A q \in Reporters(key) :
                   priority(_device_provider[key]) <= priority(q)
            /\ Record(key) \in CandidatesOf(_device_provider[key])
            /\ stable_key(Record(key).device_id) = key

C2_Witness ==
    /\ pc = "returned"
    /\ Cardinality(Reporters(ScenarioKey)) = 3
    /\ ScenarioKey \in DOMAIN _devices

\* C3: a stored battery always comes from the key's owning provider; in the
\* scenario (UPower measures 60, HID 58, both report 0951:16e1) the record is
\* owned by UPower and shows 60 after scan_once and after every later poll
C3_ScenarioOwnerBattery ==
    /\ \A key \in DOMAIN _devices :
          IsSome(Record(key).battery) =>
              Val(Record(key).battery).provider
                  = provider_type(_device_provider[key])
    /\ (/\ pc \in {"returned", "emit", "polled"}
        /\ {"UPower", "HID"} \subseteq Reporters(ScenarioKey))
       => /\ ScenarioKey \in DOMAIN _devices
          /\ _device_provider[ScenarioKey] = "UPower"
    /\ (ScenarioKey \in DOMAIN _devices /\ _device_provider[ScenarioKey] = "UPower")
       => Record(ScenarioKey).battery = Some(BatteryReading(60, FALSE, "UPower"))

C3_Witness ==
    /\ pc = "polled"
    /\ {"UPower", "HID"} \subseteq Reporters(ScenarioKey)
    /\ ScenarioKey \in DOMAIN polled
    /\ polled[ScenarioKey] = "reading"
    /\ Val(Record(ScenarioKey).battery).percent = Some(60)

\* C4: a record that holds a battery snapshot still holds one after a
\* discovery pass that reports its key again
C4_SnapshotSurvivesDiscovery ==
    [][(pc = "discover" /\ pc' = "returned") =>
          \A key \in DOMAIN _devices \cap DOMAIN _devices' :
              IsSome(heap[_devices[key]].battery)
                  => IsSome(heap'[_devices'[key]].battery)]_vars

\* C5: a poll or refresh stores exactly the reading it got, leaves the
\* battery alone when the read returned None or raised, lets no exception
\* out, and poll_all_batteries reads every tracked key
C5_PollKeepsStale ==
    [][(pc' = "polled") =>
          /\ ~escaped'
          /\ DOMAIN polled' \subseteq DOMAIN _devices
          /\ pc = "returned" => DOMAIN polled' = DOMAIN _devices
          /\ \/ DOMAIN polled' = DOMAIN _devices
             \/ Cardinality(DOMAIN polled') <= 1
          /\ \A key \in DOMAIN polled' :
                IF polled'[key] = "reading"
                THEN /\ key \in DOMAIN results'
                     /\ heap'[_devices[key]].battery = Some(results'[key])
                ELSE /\ key \notin DOMAIN results'
                     /\ heap'[_devices[key]].battery = heap[_devices[key]].battery]_vars

C5_Witness ==
    /\ pc = "polled"
    /\ \E k1, k2 \in DOMAIN polled :
          /\ polled[k1] = "raise"
          /\ IsSome(Record(k1).battery)
          /\ polled[k2] = "reading"

\* C6: run_discovery returns added = newKeys - oldKeys, removed = oldKeys -
\* newKeys; the tracked key set is newKeys; added and removed are disjoint
\* and hold no key that is in both oldKeys and newKeys
C6_AddedRemoved ==
    pc = "returned" =>
        /\ added = NewKeys \ old_keys
        /\ removed = old_keys \ NewKeys
        /\ DOMAIN _devices = NewKeys
        /\ added \cap removed = {}
        /\ (old_keys \cap NewKeys) \cap (added \cup removed) = {}

C6_Witness ==
    /\ pc = "returned"
    /\ added # {}
    /\ removed # {}

\* C7: the tracked map is untouched while a pass runs and is the whole result
\* of the pass when signals are emitted; the slot of device_added(K) finds
\* K's record, the slot of device_removed(K) finds nothing
C7_EventsAfterReplace ==
    /\ pc = "discover" => DOMAIN _devices = old_keys
    /\ pc \in {"returned", "emit"} =>
          /\ DOMAIN _devices = NewKeys
          /\ DOMAIN _device_provider = NewKeys
    /\ IsSome(delivered) =>
          LET e == Val(delivered)
          IN  /\ e.signal = "device_added" =>
                    /\ e.key \in DOMAIN _devices
                    /\ e.device = Some(_devices[e.key])
              /\ e.signal = "device_removed" => e.device = None

C7_Witness ==
    /\ pc = "emit"
    /\ IsSome(delivered)
    /\ Val(delivered).signal = "device_added"
    /\ old_keys # {}
    /\ old_keys \cap NewKeys = {}

\* C8: whatever providers fail in a pass, no exception leaves run_discovery
\* or scan_once, every provider is still asked, and the tracked keys are the
\* keys reported by the providers that did not fail
C8_FailedProvidersSkipped ==
    /\ ~escaped
    /\ pc = "returned" =>
          /\ DOMAIN found = Range(_providers)
          /\ DOMAIN _devices =
                UNION {found[p].keys : p \in {q \in DOMAIN found : found[q].kind = "list"}}

C8_Witness ==
    /\ pc = "returned"
    /\ \E p, q \in DOMAIN found :
          /\ found[p].kind = "raise"
          /\ priority(p) < priority(q)
          /\ found[q].kind = "list"
          /\ found[q].keys # {}
    /\ DOMAIN _devices # {}

\* C9: an object returned by get_device / get_all_devices is a snapshot: it
\* keeps the fields it had when it was returned
C9_ReturnedObjectIsSnapshot ==
    IsSome(held) => heap[Val(held)] = Val(held_value)

SameTriple ==
    /\ id_a.vendor_id = id_b.vendor_id
    /\ id_a.product_id = id_b.product_id
    /\ id_a.serial = id_b.serial

\* C10 (as claimed): identities with the same (vendorId, productId, serial)
\* have the same stable key
C10_SameTripleSameKey ==
    (IsSome(key_a) /\ SameTriple) => key_a = key_b

\* C10 (amended): identities with the same (vendorId, productId, serial)
\* whose vendorId and productId are both present and non-zero have the same
\* stable key, whatever their source and path
C10_SameUsableTripleSameKey ==
    (/\ IsSome(key_a)
     /\ SameTriple
     /\ TruthyInt(id_a.vendor_id)
     /\ TruthyInt(id_a.product_id)) => key_a = key_b

C10_Witness ==
    /\ IsSome(key_a)
    /\ SameTriple
    /\ TruthyInt(id_a.vendor_id)
    /\ TruthyInt(id_a.product_id)
    /\ id_a.path # id_b.path
    /\ id_a.provider # id_b.provider
    /\ key_a = key_b

\* the 4-digit lowercase hex text of the ids drawn, written out by hand
HexText(n) == CASE n = 0 -> "0000"
                [] n = 1133 -> "046d"
                [] n = 2385 -> "0951"
                [] n = 5857 -> "16e1"

IdsText(d) == HexText(Val(d.vendor_id)) \o ":" \o HexText(Val(d.product_id))

\* C11 (as claimed): the key is "vid:pid:serial" when the three fields are
\* non-null, "vid:pid" when both ids are non-null and the serial is null, and
\* the raw path otherwise, for every value of the present fields
C11_KeyFormsByPresence ==
    IsSome(key_a) =>
        Val(key_a) =
            IF IsSome(id_a.vendor_id) /\ IsSome(id_a.product_id)
               /\ IsSome(id_a.serial)
            THEN IdsText(id_a) \o ":" \o Val(id_a.serial)
            ELSE IF IsSome(id_a.vendor_id) /\ IsSome(id_a.product_id)
                    /\ ~IsSome(id_a.serial)
            THEN IdsText(id_a)
            ELSE id_a.path

\* a field is usable when it is non-null and neither the id 0 nor the empty
\* serial
UsableIds(d) ==
    /\ IsSome(d.vendor_id) /\ Val(d.vendor_id) # 0
    /\ IsSome(d.product_id) /\ Val(d.product_id) # 0

UsableSerial(d) == IsSome(d.serial) /\ Val(d.serial) # ""

\* C11 (amended): the key is "vid:pid:serial" when both ids are non-null and
\* non-zero and the serial is non-null and non-empty, "vid:pid" when both ids
\* are non-null and non-zero and the serial is null or empty, and the raw
\* path otherwise
C11_KeyFormsByUsability ==
    IsSome(key_a) =>
        Val(key_a) =
            IF UsableIds(id_a) /\ UsableSerial(id_a)
            THEN IdsText(id_a) \o ":" \o Val(id_a.serial)
            ELSE IF UsableIds(id_a)
            THEN IdsText(id_a)
            ELSE id_a.path

\* the three forms, among them an empty serial next to usable ids and a zero
\* id, have been derived
C11_Witness ==
    /\ IsSome(key_a) /\ IsSome(key_b)
    /\ id_a.vendor_id = Some(1133) /\ id_a.product_id = Some(5857)
    /\ id_a.serial = Some("")
    /\ Val(key_a) = "046d:16e1"
    /\ id_b.vendor_id = Some(0) /\ id_b.product_id = Some(5857)
    /\ Val(key_b) = id_b.path

\* the state dict of the device
NotifState == Val(notif_state)

LowBattery(t) == [kind |-> "low_battery", threshold |-> t]

\* C17: with thresholds [20,10,5], a discharging device fed 30, 15, 5, 25, 9:
\* one low-battery notification at 15 (threshold 20), two at 5 (thresholds 10
\* and 5), threshold 20 leaves the fired set at 25, nothing fires at 9
C17_ThresholdExample ==
    (config.enabled /\ config.thresholds = <<20, 10, 5>> /\ fed >= 1) =>
        /\ fed = 1 => sent = <<>>
        /\ fed = 2 => sent = <<LowBattery(20)>>
        /\ fed = 3 => sent = <<LowBattery(10), LowBattery(5)>>
        /\ fed = 4 => /\ sent = <<>>
                      /\ IntMarker(20) \notin NotifState.thresholds
        /\ fed = 5 => sent = <<>>

\* what the device does on the example: the same, but threshold 20 is still
\* in the fired set after the reading of 25
Example_AsBuilt ==
    (config.enabled /\ config.thresholds = <<20, 10, 5>> /\ fed >= 1) =>
        /\ fed = 1 => sent = <<>>
        /\ fed = 2 => sent = <<LowBattery(20)>>
        /\ fed = 3 => sent = <<LowBattery(10), LowBattery(5)>>
        /\ fed = 4 => /\ sent = <<>>
                      /\ NotifState.thresholds
                           = {IntMarker(20), IntMarker(10), IntMarker(5)}
        /\ fed = 5 => sent = <<>>

\* the state dict a reading is checked against
PriorState == IF IsSome(notif_state) THEN NotifState ELSE FreshNotifState

\* the configured thresholds
Thresholds == {config.thresholds[i] : i \in 1..Len(config.thresholds)}

\* the thresholds of the low-battery notifications sent, in sending order
RECURSIVE LowSent(_)
LowSent(notes) ==
    IF notes = <<>> THEN <<>>
    ELSE IF Head(notes).kind = "low_battery"
         THEN <<Head(notes).threshold>> \o LowSent(Tail(notes))
         ELSE LowSent(Tail(notes))

\* the reading of a step crosses threshold t downwards, t not yet fired
Crossing(t) ==
    LET reading == Val(last_reading')
    IN  /\ ~reading.is_charging
        /\ IsSome(PriorState.prev_battery)
        /\ IsSome(reading.percent)
        /\ Val(reading.percent) <= t
        /\ t < Val(PriorState.prev_battery)
        /\ IntMarker(t) \notin PriorState.thresholds

\* C18: on each reading a low-battery notification for threshold t fires if
\* and only if the device is not charging, a previous percent exists,
\* percent <= t < previousPercent and t is not in the fired set; t is then in
\* the fired set; one notification per threshold at most, in descending order
C18_FiresIffCrossing ==
    [][(IsSome(last_reading') /\ sent' # <<>> => config.enabled)
       /\ (IsSome(last_reading') /\ config.enabled =>
            LET low == LowSent(sent')
            IN  /\ \A t \in Thresholds :
                     /\ (\E i \in 1..Len(low) : low[i] = t) <=> Crossing(t)
                     /\ Crossing(t) => IntMarker(t) \in Val(notif_state').thresholds
                /\ \A i \in 1..Len(low) : low[i] \in Thresholds
                /\ \A i, j \in 1..Len(low) : i < j => low[i] > low[j])]_vars

\* with thresholds [5, 20, 20] a reading of a discharging device has crossed
\* 20 and 5 at once: 20 has fired once, its second entry found it fired
C18_Witness ==
    /\ config.enabled
    /\ config.thresholds = <<5, 20, 20>>
    /\ IsSome(last_reading) /\ ~Val(last_reading).is_charging
    /\ IsSome(notif_state)
    /\ LowSent(sent) = <<20, 5>>
    /\ {IntMarker(20), IntMarker(5)} \subseteq NotifState.thresholds

\* the reading of a step is a charging-start edge
StartEdge ==
    Val(last_reading').is_charging /\ ~PriorState.was_charging

\* C19: after a reading whose percent is above a fired threshold t, t is no
\* longer in the fired set; a fired threshold the percent has not risen above
\* stays in the fired set until a charging-start edge
C19_HysteresisReset ==
    [][(/\ IsSome(last_reading') /\ config.enabled
        /\ IsSome(Val(last_reading').percent)) =>
          LET percent == Val(Val(last_reading').percent)
              fired == Val(notif_state').thresholds
          IN  \A t \in Thresholds :
                IntMarker(t) \in PriorState.thresholds =>
                  /\ percent > t => IntMarker(t) \notin fired
                  /\ (percent <= t /\ ~StartEdge) => IntMarker(t) \in fired]_vars

\* how many notifications of a kind were sent
RECURSIVE CountKind(_, _)
CountKind(notes, kind) ==
    IF notes = <<>> THEN 0
    ELSE (IF Head(notes).kind = kind THEN 1 ELSE 0) + CountKind(Tail(notes), kind)

\* what a reading does at the charging edges: one "charging started" at a
\* start edge, the markers fired before it gone; one "charging stopped" at a
\* stop edge; neither otherwise
EdgeNotifications ==
    LET charging == Val(last_reading').is_charging
        was_charging == PriorState.was_charging
        started == CountKind(sent', "charging_started")
        stopped == CountKind(sent', "charging_stopped")
        fired == Val(notif_state').thresholds
    IN  /\ (charging /\ ~was_charging) =>
              /\ started = 1 /\ stopped = 0
              /\ fired \subseteq {FullMarker}
              /\ FullMarker \in fired => CountKind(sent', "fully_charged") = 1
        /\ (~charging /\ was_charging) => (started = 0 /\ stopped = 1)
        /\ (charging = was_charging) => (started = 0 /\ stopped = 0)

\* the charging notifications of a step differ in kind from the last one of
\* the sequence `edge`
Alternates(edge) ==
    /\ CountKind(sent', "charging_started") > 0 => edge # "started"
    /\ CountKind(sent', "charging_stopped") > 0 => edge # "stopped"

\* C20 (as claimed): with charging notifications enabled, a start edge fires
\* exactly one "charging started" and empties the fired markers, a stop edge
\* fires exactly one "charging stopped", no edge fires neither; over any
\* sequence of readings for one device the two notifications alternate
C20_ChargingEdges ==
    [][(IsSome(last_reading') /\ config.enabled /\ config.charging_notify) =>
          (EdgeNotifications /\ Alternates(last_edge))]_vars

\* C20 (amended): the same, the two notifications alternating over the
\* readings between the device being added and its being removed
C20_ChargingEdgesPerTracking ==
    [][(IsSome(last_reading') /\ config.enabled /\ config.charging_notify) =>
          (EdgeNotifications /\ Alternates(life_edge))]_vars

\* a reading of 5 %, charging, of a device that was not charging has fired
\* one "charging started" and left no fired marker
C20_Witness ==
    /\ config.enabled /\ config.charging_notify
    /\ last_reading = Some([percent |-> Some(5), is_charging |-> TRUE])
    /\ CountKind(sent, "charging_started") = 1
    /\ IsSome(notif_state)
    /\ NotifState.was_charging
    /\ NotifState.thresholds = {}
    /\ NotifState.prev_battery = Some(5)

\* the current burst is over: the quiet period has passed, its timers have
\* expired and their passes have run
BurstSettled ==
    /\ burst >= 1
    /\ since_event >= HotplugDelay
    /\ shots = <<>>
    /\ pc = "idle"

\* C12: a burst of n >= 1 watcher callbacks, each less than the quiet period
\* after the previous one, triggers exactly one discovery pass, run after the
\* quiet period of the last callback (a callback whose timer Qt could not
\* start set aside)
C12_OnePassPerBurst ==
    /\ burst_passes <= 1
    /\ ~early_pass
    /\ (BurstSettled /\ ~burst_lost) => burst_passes = 1

\* the manager state: the tracked-record map, the owner map, the records and
\* the position and locals of the operation in progress
ManagerState ==
    <<_providers, _devices, _device_provider, heap, pc, di, seen_keys,
      seen_providers, added, removed, results>>

C13_RetrySuperseded ==
    /\ IsSome(_debounce_timer) => ~IsSome(_retry_timer)
    /\ ~window_attempt

\* C14: after a settled window the failed read is retried at most
\* max_retries times; a successful attempt ends the retries; after
\* max_retries failed retries no retry is pending and no reading is shown;
\* the retry counter is at most max_retries
C14_BoundedRetries ==
    /\ _retry_count <= max_retries
    /\ settle_retries <= max_retries
    /\ last_try = "ok" => ~IsSome(_retry_timer)
    /\ (last_try = "fail" /\ settle_retries = max_retries) =>
           (~IsSome(_retry_timer) /\ IsSome(error))

\* C15: an HID command is one write followed by one read; it is not
\* re-sent within the same invocation when the device gives no response or
\* the I/O fails
C15_CommandSentOnce ==
    IsSome(hid_call) => Val(hid_call).writes <= 1


\* the "full" marker is in the fired set when the reading of a step reaches
\* the full-charge test: it was there before the reading and the reading is
\* no charging-start edge, which empties the set
FullAlreadyFired ==
    /\ FullMarker \in PriorState.thresholds
    /\ ~(config.charging_notify /\ StartEdge)

\* what a reading does at the full-charge test: one "fully charged" and the
\* marker set when the device charges at 100 % and the marker is not in the
\* fired set, nothing otherwise
FullNotification ==
    LET reading == Val(last_reading')
        fires == /\ reading.is_charging
                 /\ reading.percent = Some(100)
                 /\ ~FullAlreadyFired
    IN  /\ CountKind(sent', "fully_charged") = (IF fires THEN 1 ELSE 0)
        /\ fires => FullMarker \in Val(notif_state').thresholds

\* C21: "fully charged" fires on a reading iff the device is charging, the
\* percent is 100 and the "full" marker is not in the fired set, and the marker
\* is then set; one uninterrupted run of charging readings fires it at most
\* once
C21_FullyChargedOnce ==
    /\ [][(IsSome(last_reading') /\ config.enabled /\ config.full_notify) =>
            FullNotification]_vars
    /\ []((config.enabled /\ config.full_notify) => period_full <= 1)

\* C21 as the code has it: at most once in a run of charging readings during
\* which the device was not removed and added again
C21_FullyChargedOncePerTracking ==
    /\ [][(IsSome(last_reading') /\ config.enabled /\ config.full_notify) =>
            FullNotification]_vars
    /\ []((config.enabled /\ config.full_notify) => run_full <= 1)

\* a second reading at 100 % in the same run of charging readings sent
\* nothing: the one "fully charged" of the run was sent before, the marker is
\* in the fired set
C21_Witness ==
    /\ config.enabled /\ config.full_notify
    /\ last_reading = Some([percent |-> Some(100), is_charging |-> TRUE])
    /\ run_full = 1
    /\ sent = <<>>
    /\ IsSome(notif_state)
    /\ FullMarker \in NotifState.thresholds
    /\ NotifState.was_charging

\* C22: a notification state exists only while the manager tracks the key:
\* handling the removal discards it, handling the next add starts it empty
\* (no previous percent, not charging, no fired markers), and the first
\* reading after the add sends no low-battery notification
C22_StateOnlyWhileTracked ==
    /\ [](IsSome(notif_state) => tracked)
    /\ [][/\ (tracked /\ ~tracked') => notif_state' = None
          /\ (~tracked /\ tracked') =>
                notif_state' = Some([prev_battery |-> None,
                                     was_charging |-> FALSE,
                                     thresholds |-> {}])
          /\ (last_reading = None /\ IsSome(last_reading')) =>
                LowSent(sent') = <<>>]_vars

\* the device was tracked before (a charging notification of that tracking
\* is on record), was removed and added again, and its first reading since,
\* 5 % on battery, sent nothing and left no marker
C22_Witness ==
    /\ config.enabled
    /\ last_edge = "started" /\ life_edge = "none"
    /\ tracked
    /\ last_reading = Some([percent |-> Some(5), is_charging |-> FALSE])
    /\ sent = <<>>
    /\ notif_state = Some([prev_battery |-> Some(5), was_charging |-> FALSE,
                           thresholds |-> {}])

\* the encoders, and the opcode each one's frames carry in byte 1
Encoders ==
    {"build_heartbeat_packet", "build_hw_info_packet",
     "build_led_query_packet", "build_dpi_query_packet", "build_led_packet",
     "build_dpi_select_packet", "build_dpi_enable_packet",
     "build_dpi_value_packet", "build_dpi_color_packet",
     "build_button_packet", "build_macro_packets", "build_save_packet"}

Opcode(op) ==
    CASE op = "build_heartbeat_packet" -> 81      \* 0x51
      [] op = "build_hw_info_packet" -> 80        \* 0x50
      [] op = "build_led_query_packet" -> 82      \* 0x52
      [] op = "build_dpi_query_packet" -> 83      \* 0x53
      [] op = "build_led_packet" -> 210           \* 0xD2
      [] op \in {"build_dpi_select_packet", "build_dpi_enable_packet",
                 "build_dpi_value_packet", "build_dpi_color_packet"} -> 211
      [] op = "build_button_packet" -> 212        \* 0xD4
      [] op = "build_save_packet" -> 222          \* 0xDE
      [] op = "build_macro_packets" -> 214        \* 0xD6

\* the encoder call on record returned its frames
Encoded == codec.op \in Encoders /\ ~codec.out.raised

\* bytes of payload in packet k of the call on record, the opcode included
PayloadLen(k) ==
    CASE codec.op \in {"build_heartbeat_packet", "build_hw_info_packet",
                       "build_led_query_packet", "build_dpi_query_packet"} -> 1
      [] codec.op = "build_save_packet" -> 2
      [] codec.op = "build_led_packet" -> 12
      [] codec.op = "build_dpi_select_packet" -> 4
      [] codec.op = "build_dpi_enable_packet" -> 5
      [] codec.op = "build_dpi_value_packet" -> 6
      [] codec.op = "build_dpi_color_packet" -> 7
      [] codec.op = "build_button_packet" -> 6
      [] codec.op = "build_macro_packets" ->
           LET left == Len(codec.args.events) - 6 * (k - 1)
           IN  4 + 10 * (IF left > 6 THEN 6 ELSE left)

\* C23: every frame an encoder returns has exactly 64 bytes, byte 0 is 0x00,
\* byte 1 is the opcode of the operation and the bytes after the payload are
\* all zero
C23_FrameFormat ==
    Encoded =>
        \A k \in 1..Len(codec.out.packets) :
            LET frame == codec.out.packets[k]
            IN  /\ Len(frame) = 64
                /\ frame[1] = 0
                /\ frame[2] = Opcode(codec.op)
                /\ \A j \in 1..64 : j > 1 + PayloadLen(k) => frame[j] = 0

\* the LED frame for red 255, green 0, blue 255, brightness 101 on both
\* zones, static: twelve bytes of payload behind the report id, the
\* brightness clamped to 100, zeros after it
C23_Witness ==
    /\ codec.op = "build_led_packet"
    /\ codec.args = [target |-> 32, effect |-> 0, red |-> 255, green |-> 0,
                     blue |-> 255, brightness |-> 101, speed |-> 0,
                     red2 |-> None]
    /\ ~codec.out.raised
    /\ SubSeq(codec.out.packets[1], 1, 14) =
          <<0, 210, 32, 0, 8, 255, 0, 255, 255, 0, 255, 100, 0, 0>>

\* C24: no encoder raises: for every integer argument, colour components,
\* button and key codes and the macro button index outside 0..255 included,
\* each encoder returns frames of 64 bytes
C24_NoEncoderRaises ==
    codec.op \in Encoders =>
        /\ ~codec.out.raised
        /\ \A k \in 1..Len(codec.out.packets) :
              Len(codec.out.packets[k]) = 64

\* a DPI query response that carries the two bytes at offset 10, where the
\* decoder reads the DPI of profile 0
DpiResponse(low, high) ==
    [k \in 1..64 |-> IF k = 1 THEN 83 ELSE IF k = 11 THEN low
                      ELSE IF k = 12 THEN high ELSE 0]

\* C25: the DPI value frame carries clamp(dpi, 50, 16000) rounded down to a
\* multiple of 50 and divided by 50, as 16 bits little-endian; for every d of
\* 50..16000 in steps of 50 the DPI decoder reads d back from those two
\* bytes; encoding 873 gives the frame of encoding 850
C25_DpiRoundTrip ==
    (codec.op = "build_dpi_value_packet" /\ ~codec.out.raised) =>
        LET d == codec.args.dpi
            frame == codec.out.packets[1]
            clamped == IF d < 50 THEN 50 ELSE IF d > 16000 THEN 16000 ELSE d
            wire == (clamped - (clamped % 50)) \div 50
            decoded == Val(parse_dpi_settings(DpiResponse(frame[6], frame[7])))
        IN  /\ frame[6] = wire % 256
            /\ frame[7] = wire \div 256
            /\ (d \in 50..16000 /\ d % 50 = 0) => decoded.dpi_values[1] = d
            /\ d = 873 =>
                  /\ decoded.dpi_values[1] = 850
                  /\ codec.out =
                       Frames(build_dpi_value_packet(codec.args.profile, 850))

\* 16000 on profile 4 went out as 320 = 0x0140: low byte 0x40, high byte 0x01
C25_Witness ==
    /\ codec.op = "build_dpi_value_packet"
    /\ codec.args = [profile |-> 4, dpi |-> 16000]
    /\ ~codec.out.raised
    /\ SubSeq(codec.out.packets[1], 1, 8) = <<0, 211, 2, 4, 2, 64, 1, 0>>

\* bit i of a non-negative integer
BitOf(x, i) == (x \div (2 ^ i)) % 2

\* C26: the enable-mask frame carries the mask with its five bits reversed:
\* profile i enabled sets wire bit 4 - i, mask 0b00001 goes out as 0b10000,
\* reversing the wire value gives the mask back for each of the 32 masks,
\* and the wire value is within 0..31 whatever the argument
C26_MaskReversal ==
    (codec.op = "build_dpi_enable_packet" /\ ~codec.out.raised) =>
        LET mask == codec.args.enable_mask
            wire == codec.out.packets[1][6]
        IN  /\ wire \in 0..31
            /\ mask \in 0..31 =>
                  /\ \A i \in 0..4 : BitOf(wire, 4 - i) = BitOf(mask, i)
                  /\ reversed_mask(wire) = mask
                  /\ reversed_mask(reversed_mask(mask)) = mask
            /\ mask = 1 => wire = 16

\* profiles 0 and 1 enabled (mask 0b00011) went out as 0b11000
C26_Witness ==
    /\ codec.op = "build_dpi_enable_packet"
    /\ codec.args.enable_mask = 3
    /\ ~codec.out.raised
    /\ SubSeq(codec.out.packets[1], 1, 7) = <<0, 211, 1, 0, 1, 24, 0>>

\* C27: a list of N >= 1 macro events is encoded as ceil(N / 6) packets, an
\* empty list as exactly one packet with count 0 and no rows; the count field
\* of every packet but the last is 0x86
C27_MacroChunking ==
    (codec.op = "build_macro_packets" /\ ~codec.out.raised) =>
        LET N == Len(codec.args.events)
            packets == codec.out.packets
        IN  /\ N >= 1 => Len(packets) = (N + 5) \div 6
            /\ N = 0 =>
                  /\ Len(packets) = 1
                  /\ \A j \in 5..64 : packets[1][j] = 0
            /\ \A k \in 1..(Len(packets) - 1) : packets[k][5] = 134

\* thirteen events for button 5 went out as three packets, numbered 0, 1, 2:
\* two continuation packets and a last one that counts one row
C27_Witness ==
    /\ codec.op = "build_macro_packets"
    /\ Len(codec.args.events) = 13
    /\ ~codec.out.raised
    /\ Len(codec.out.packets) = 3
    /\ SubSeq(codec.out.packets[1], 1, 5) = <<0, 214, 5, 0, 134>>
    /\ SubSeq(codec.out.packets[2], 1, 5) = <<0, 214, 5, 1, 134>>
    /\ SubSeq(codec.out.packets[3], 1, 5) = <<0, 214, 5, 2, 1>>

\* the decoders, the shortest response each accepts and the opcode it expects
\* in byte 0
Decoders ==
    {"parse_battery", "parse_hw_info", "parse_led_settings",
     "parse_dpi_settings"}

MinLength(op) ==
    CASE op = "parse_battery" -> 6
      [] op = "parse_hw_info" -> 32
      [] op = "parse_led_settings" -> 21
      [] op = "parse_dpi_settings" -> 30

Expected(op) ==
    CASE op = "parse_battery" -> 81           \* 0x51
      [] op = "parse_hw_info" -> 80           \* 0x50
      [] op = "parse_led_settings" -> 82      \* 0x52
      [] op = "parse_dpi_settings" -> 83      \* 0x53

\* the fields the decoder on record read are those of the response
FieldsDecoded ==
    LET r == codec.args.response
        out == Val(codec.out)
    IN  CASE codec.op = "parse_battery" ->
               /\ out.percent = r[5]
               /\ out.is_charging = (r[6] = 1)
          [] codec.op = "parse_hw_info" ->
               /\ out.product_id = r[5] + 256 * r[6]
               /\ out.vendor_id = r[7] + 256 * r[8]
               /\ out.firmware_version[1] = r[4]
          [] codec.op = "parse_led_settings" ->
               /\ out.brightness = r[18]
               /\ <<out.red, out.green, out.blue>> = <<r[19], r[20], r[21]>>
          [] codec.op = "parse_dpi_settings" ->
               /\ out.active_profile = r[6]
               /\ \A i \in 1..5 :
                     out.dpi_values[i] = (r[9 + 2 * i] + 256 * r[10 + 2 * i]) * 50

\* C29: a decoder returns None when the response is shorter than its minimum
\* length or byte 0 is not its opcode, and the decoded fields otherwise; a
\* heartbeat response [0x51, _, _, _, 73, 0x01, ...] decodes to percent 73,
\* charging; charging is decoded as true only when byte 5 is 0x01
C29_DecodersValidate ==
    codec.op \in Decoders =>
        LET r == codec.args.response
            invalid == \/ Len(r) < MinLength(codec.op)
                       \/ r[1] # Expected(codec.op)
        IN  /\ invalid => codec.out = None
            /\ ~invalid => (IsSome(codec.out) /\ FieldsDecoded)
            /\ (codec.op = "parse_battery" /\ Len(r) >= 6 /\ r[1] = 81
                   /\ r[5] = 73 /\ r[6] = 1) =>
                  codec.out = Some([percent |-> 73, is_charging |-> TRUE])
            /\ (codec.op = "parse_battery" /\ IsSome(codec.out)
                   /\ Val(codec.out).is_charging) => r[6] = 1

\* a 64-byte heartbeat response with 73 in byte 4 and 0x01 in byte 5 was
\* decoded to percent 73, charging
C29_Witness ==
    /\ codec.op = "parse_battery"
    /\ Len(codec.args.response) = 64
    /\ SubSeq(codec.args.response, 1, 6) = <<81, 14, 21, 28, 73, 1>>
    /\ codec.out = Some([percent |-> 73, is_charging |-> TRUE])

\* C28: upload_macro sends the packets in sequence order, each one only after
\* the one before got a response; the first packet without a response is the
\* last one sent and the upload reports failure; it reports success only when
\* every packet of the sequence got a response
C28_UploadStopsAtFirstFailure ==
    upload.result # "idle" =>
        LET log == upload.log
            n == Len(upload.packets)
        IN  /\ Len(log) <= n
            /\ \A i \in 1..Len(log) : log[i].seq = i - 1
            /\ \A i \in 1..(Len(log) - 1) : log[i].response # None
            /\ upload.result = "failure" <=>
                  (Len(log) >= 1 /\ log[Len(log)].response = None)
            /\ upload.result = "success" =>
                  /\ Len(log) = n
                  /\ \A i \in 1..n : log[i].response # None

\* an upload of three packets failed at the second: the first was answered,
\* the second was written and got no response, the third was not sent
C28_Witness ==
    /\ upload.result = "failure"
    /\ Len(upload.packets) = 3
    /\ Len(upload.log) = 2
    /\ upload.log[1].response # None
    /\ upload.log[2] = [seq |-> 1, writes |-> 1, response |-> None]

\* C30: every battery reading stored on a tracked record has its percent
\* absent or within 0..100, whatever byte 4 of the heartbeat response is
C30_StoredPercentInRange ==
    \A ref \in DOMAIN heap :
        LET battery == heap[ref].battery
        IN  (IsSome(battery) /\ IsSome(Val(battery).percent)) =>
                Val(Val(battery).percent) \in 0..100

\* C39: after a reading that is a charging-start edge (charging, and not
\* charging before) no numeric threshold is left in the fired set, whether
\* charging notifications are enabled or not
C39_StartEdgeClearsThresholds ==
    [][(IsSome(last_reading') /\ config.enabled /\ StartEdge) =>
          \A t \in Thresholds :
              IntMarker(t) \notin Val(notif_state').thresholds]_vars

\* the number of rows packet k (from 1) of a macro upload of N events carries
RowsCarried(N, k) == IF N - 6 * (k - 1) > 6 THEN 6 ELSE N - 6 * (k - 1)

\* byte b (from 0) of row r (from 0) is in the frame at byte 5 + 10r + b,
\* counted from the report id at byte 0, and holds the value `byte`
RowByteAt(frame, r, b, byte) ==
    /\ 5 + 10 * r + b < Len(frame)
    /\ frame[5 + 10 * r + b + 1] = byte

\* C32: in the packets build_macro_packets returns, packet k (from 0)
\* carries sequence index k, the count field of the last packet is the
\* number of rows it carries (1..6, or 0 for no events), and the rows of all
\* packets, one after the other, are the 10-byte rows of the events in
\* order, one row for each event
C32_MacroRows ==
    (codec.op = "build_macro_packets" /\ ~codec.out.raised) =>
        LET events == codec.args.events
            N == Len(events)
            packets == codec.out.packets
            last == Len(packets)
        IN  /\ \A k \in 1..last : packets[k][4] = k - 1
            /\ packets[last][5] = (IF N = 0 THEN 0 ELSE RowsCarried(N, last))
            /\ N >= 1 => packets[last][5] \in 1..6
            /\ Len(event_rows(events)) = N
            /\ \A j \in 1..N : \A b \in 0..9 :
                  RowByteAt(packets[((j - 1) \div 6) + 1], (j - 1) % 6, b,
                            event_row(events[j])[1][b + 1])

\* C40: in every packet build_macro_packets returns, each of the 10 bytes of
\* every row it carries is in the 64-byte frame, row r at frame bytes
\* 5 + 10r .. 14 + 10r, a packet of six rows included
C40_RowsWhole ==
    (codec.op = "build_macro_packets" /\ ~codec.out.raised) =>
        LET N == Len(codec.args.events)
            packets == codec.out.packets
        IN  \A k \in 1..Len(packets) :
              \A r \in 0..(RowsCarried(N, k) - 1) : \A b \in 0..9 :
                  5 + 10 * r + b < Len(packets[k])

\* C34: after every operation of the device manager the tracked-record map
\* and the owner map have the same keys, each record's stable key is the key
\* it is stored under, and the source in its identity is the source of the
\* provider that owns the key
C34_MapsAgree ==
    /\ DOMAIN _devices = DOMAIN _device_provider
    /\ \A key \in DOMAIN _devices :
          LET device == heap[_devices[key]]
          IN  /\ stable_key(device.device_id) = key
              /\ device.device_id.provider = provider_type(_device_provider[key])

\* a pass returned with two keys tracked, one of them reported by the HID
\* provider and by UPower and owned by UPower
C34_Witness ==
    /\ pc = "returned"
    /\ Cardinality(DOMAIN _devices) = 2
    /\ \E key \in DOMAIN _devices :
          /\ _device_provider[key] = "UPower"
          /\ "HID" \in DOMAIN found
          /\ key \in found["HID"].keys

C37_QuietAfterStop ==
    [][mgr_stopped =>
          /\ ~(pc # "discover" /\ pc' = "discover")
          /\ ~(pc # "polled" /\ pc' = "polled")
          /\ ~(delivered' # delivered /\ IsSome(delivered'))]_vars

\* C33: every hotplug signal of the HyperX tray restarts the one debounce
\* timer at 2 seconds and sets the retry counter to 0; a burst of signals,
\* each less than 2 seconds after the one before, gives exactly one settled
\* callback, 2 seconds after the last signal and not before
C33_OneSettledPerBurst ==
    /\ (tray_burst.signals >= 1 /\ tray_burst.since < DebounceSeconds) =>
          /\ _debounce_timer = Some(DebounceSeconds - tray_burst.since)
          /\ tray_burst.settled = 0
    /\ (tray_burst.signals >= 1 /\ tray_burst.since = 0) => _retry_count = 0
    /\ ~tray_burst.early
    /\ tray_burst.settled <= 1
    /\ (tray_burst.signals >= 1 /\ tray_burst.since >= DebounceSeconds
          /\ ~TimerDue(_debounce_timer)) =>
          /\ tray_burst.settled = 1
          /\ _debounce_timer = None

\* a burst of three signals has had its one settled callback, and the read
\* of that callback failed: the first retry is pending
C33_Witness ==
    /\ tray_burst.signals = 3
    /\ tray_burst.settled = 1
    /\ _debounce_timer = None
    /\ _retry_count = 1
    /\ IsSome(_retry_timer)

\* C38: after a discover pass whose enumeration succeeded the provider holds
\* a driver exactly for the keys the pass saw, and a raw dict for the same
\* keys; a key it held a driver for before keeps that driver object and its
\* open connection; the drivers of the other keys held before are dropped,
\* and closed when they were open
C38_DriversFollowDiscovery ==
    (hid.call = "discover" /\ hid.result.enumerated) =>
        LET seen == hid.result.keys
        IN  /\ DOMAIN hid._active = seen
            /\ DOMAIN hid._device_infos = seen
            /\ \A key \in seen \cap DOMAIN hid.before :
                  hid._active[key] = hid.before[key]
            /\ \A key \in DOMAIN hid.before \ seen :
                  IsSome(hid.before[key].open_path) =>
                      hid.before[key].inst \in hid.closed

\* a pass that saw the dongle again and the wired mouse no longer: the open
\* driver of the dongle is kept, the open driver of the wired mouse closed
C38_Witness ==
    /\ hid.call = "discover"
    /\ hid.result.enumerated
    /\ DOMAIN hid.before = {"0951:16e1", "0951:16e2"}
    /\ hid.result.keys = {"0951:16e1"}
    /\ IsSome(hid._active["0951:16e1"].open_path)
    /\ hid.closed = {hid.before["0951:16e2"].inst}

\* C31: a tracked record owned by a provider without a driver (UPower, sysfs)
\* reports the battery capability alone and get_driver returns nothing for
\* its key; get_driver returns a driver only for a key that the HID provider
\* owns
C31_DriverOnlyFromHidOwner ==
    /\ \A key \in DOMAIN _devices :
          _device_provider[key] \in {"UPower", "sysfs"} =>
              Record(key).capabilities = {"battery"}
    /\ hid.call = "get_driver" =>
          /\ IsSome(hid.result) =>
                /\ hid.arg \in DOMAIN _device_provider
                /\ _device_provider[hid.arg] = "HID"
          /\ (hid.arg \in DOMAIN _device_provider
                /\ _device_provider[hid.arg] \in {"UPower", "sysfs"}) =>
                hid.result = None

\* get_driver returned nothing for the key of the dongle, which UPower owns,
\* while the HID provider holds a driver for that key
C31_Witness ==
    /\ hid.call = "get_driver"
    /\ hid.arg = "0951:16e1"
    /\ hid.arg \in DOMAIN _device_provider
    /\ _device_provider[hid.arg] = "UPower"
    /\ hid.arg \in DOMAIN hid._active
    /\ hid.result = None

\* C36: with stop_watching running while a watcher thread handles a udev
\* event, the thread never calls a cleared (None) callback, and on_change is
\* not invoked once stop_watching has returned
C36_NoCallAfterStop ==
    /\ ~watch.called_none
    /\ ~watch.late_call
====
